---- MODULE Spec2Model ----
(***************************************************************************)
(* Change-detection monitor of the YouTube RSS backend:                    *)
(*   - the store operations the monitor relies on (db/database.ts),        *)
(*   - one channel check and one full pass (services/monitor.ts),          *)
(*   - the start/stop life cycle of the monitor (services/monitor.ts),     *)
(*   - the fetch client with its admission gate (http-client.ts).          *)
(***************************************************************************)
EXTENDS Integers, Sequences, FiniteSets, Bags, TLC

(***************************************************************************)
(* Bounds of the model.                                                    *)
(***************************************************************************)
NumVideos == 2

MaxCycles == 2

VideoIds == 1 .. NumVideos

Channels == {"A", "B"}

Titles == {"t1", "t2"}

VideoTypes == {"video", "short", "live", "scheduled", "vod"}

EventTypes == {"new_video", "live_started", "live_ended", "scheduled_live", "video_updated"}

NullEvent == "null"

VARIABLES
  videos,       \* table videos: video_id -> row (the domain is the set of stored ids)
  events,       \* table events: a bag of rows [event_type, video_id, channel_id, created_at]
  channels,     \* table channels: channel_id -> [is_active, last_checked_at]
  upPc,         \* position of a single upsertVideo call (of each run, when two runs are modelled)
  upArg,        \* its arguments [video, channelId]
  upPre,        \* the row stored for the video before the call (<<>> if none), or what each run read
  upRet,        \* the event it returned (to each run)
  config,       \* MonitorConfig: [maxVideosPerFeed, maxVideosPerChannel]
  channelCache, \* YouTubeMonitor.channelCache: the cached channel ids
  cycle,        \* number of passes (checkAllChannels) started so far
  pass,         \* the running pass: [pc, todo, list, checked, failed, errors]
  run,          \* the running (or last) checkChannel: [pc, channelId, cycle, videos, liveNow, idx, ...]
  emitted,      \* lifecycle events emitted by the current checkChannel: <<[event, videoId]>>
  sighting,     \* history: video -> <<[chan, title, first]>> while it stays an unchanged plain feed item
  streak,       \* history: channel -> <<[videoId, started]>> while the probe keeps reporting videoId
  ended,        \* history: channel -> the streak item of the check in which the probe first found nothing
  errorListener,\* whether a listener of the 'error' event is registered on the monitor
  deleted,      \* history: channel -> the number of the first pass begun after its deletion (0: not deleted)
  permits,      \* Semaphore.permits
  queue,        \* Semaphore.queue: the waiting get calls, oldest first
  options,      \* HttpClient.options: [maxConcurrent, maxRetries]
  calls,        \* the get calls: call -> [pc, attempt, lastError, error, sends, lastResp, sleep]
  clock,        \* Date.now(), in units of MinDelay
  lastRequestTime, \* HttpClient.lastRequestTime
  timeouts,     \* the pending setTimeout of each get call: the time it is due, 0 for none
  sent,         \* history: the time of the latest send and the smallest time between two successive sends
  isRunning,    \* YouTubeMonitor.isRunning
  initialized,  \* YouTubeMonitor.initialized
  pollingTimer, \* YouTubeMonitor.pollingTimer: a timer handle, 0 for null
  timers,       \* the interval timers that are armed
  starting,     \* the start calls suspended at their await of initialize
  inFlight,     \* the passes launched and not yet over
  checks,       \* the checkChannel runs in progress, by caller
  hist,         \* history: calls made, passes launched, and whether stop was the last call
  fnPc,         \* position of a single call of a function of the store or of the scraper
  fnArg,        \* its arguments
  fnRet         \* what it returned

storeVars == <<videos, events, channels>>

upVars == <<upPc, upArg, upPre, upRet>>

monVars ==
  <<config, channelCache, cycle, pass, run, emitted, sighting, streak, ended, errorListener,
    deleted>>

paceVars == <<clock, lastRequestTime, timeouts, sent>>

httpVars == <<options, permits, queue, calls, paceVars>>

lifeVars == <<isRunning, initialized, pollingTimer, timers, starting, inFlight, checks, hist>>

fnVars == <<fnPc, fnArg, fnRet>>

(***************************************************************************)
(* The values of each part while another part is being explored.           *)
(***************************************************************************)
NoArg == [video |-> 0, channelId |-> ""]

RunIdle ==
  [ pc |-> "idle", channelId |-> "", cycle |-> 0, videos |-> <<>>, liveNow |-> <<>>,
    idx |-> 0, shortVideoIds |-> {}, channelInfo |-> FALSE ]

PassIdle ==
  [pc |-> "idle", todo |-> <<>>, list |-> <<>>, checked |-> <<>>, failed |-> <<>>,
   errors |-> <<>>]

\* no single upsertVideo call is modelled
UpsertIdle ==
  /\ upPc = "idle"
  /\ upArg = NoArg
  /\ upPre = <<>>
  /\ upRet = NullEvent

\* the monitor when no pass is modelled
MonitorIdle ==
  /\ config = [maxVideosPerFeed |-> 0, maxVideosPerChannel |-> 0]
  /\ channelCache = {}
  /\ cycle = 0
  /\ pass = PassIdle
  /\ run = RunIdle
  /\ emitted = <<>>
  /\ sighting = [v \in VideoIds |-> <<>>]
  /\ streak = [c \in Channels |-> <<>>]
  /\ ended = [c \in Channels |-> 0]
  /\ errorListener = FALSE
  /\ deleted = [c \in Channels |-> 0]

NumCalls == 3

Calls == 1 .. NumCalls

\* what a send can end with: a body, an HTTP error status, or no response
Responses == {"ok", "429", "404", "403", "500", "timeout"}

NoCall ==
  [pc |-> "idle", attempt |-> 0, lastError |-> "none", error |-> "none", sends |-> 0,
   lastResp |-> "none", sleep |-> 0]

\* the fetch client when time is not modelled
PaceIdle ==
  /\ clock = 0
  /\ lastRequestTime = 0
  /\ timeouts = [c \in Calls |-> 0]
  /\ sent = [last |-> -1, closest |-> 0]

\* the fetch client when no get call is modelled
HttpIdle ==
  /\ options = [maxConcurrent |-> 0, maxRetries |-> 0]
  /\ permits = 0
  /\ queue = <<>>
  /\ calls = [c \in Calls |-> NoCall]
  /\ PaceIdle

MaxStarts == 2

MaxStops == 2

MaxTicks == 2
MaxAdds == 1

NoHistory ==
  [starts |-> 0, stops |-> 0, ticks |-> 0, immediate |-> 0, quiet |-> FALSE, late |-> FALSE]

\* no checkChannel run is in progress
NoChecks == [pass |-> 0, add |-> 0]

\* no single function call is modelled
FnIdle ==
  /\ fnPc = "idle"
  /\ fnArg = <<>>
  /\ fnRet = <<>>

\* the life cycle when start and stop are not modelled
LifeIdle ==
  /\ isRunning = FALSE
  /\ initialized = FALSE
  /\ pollingTimer = 0
  /\ timers = {}
  /\ starting = 0
  /\ inFlight = 0
  /\ checks = NoChecks
  /\ hist = NoHistory

(***************************************************************************)
(* The store (db/database.ts).                                             *)
(***************************************************************************)
Bit(b) == IF b THEN 1 ELSE 0

\* getVideo: the row of videoId, or nothing (a sequence of length 0 or 1)
getVideo(store, videoId) ==
  IF videoId \in DOMAIN store THEN <<store[videoId]>> ELSE <<>>

\* the VALUES (...) part of the INSERT of upsertVideo
InsertedRow(video, channelId) ==
  [ channel_id      |-> channelId,
    title           |-> video.title,
    published_at    |-> video.publishedAt,
    type            |-> video.type,
    is_live         |-> Bit(video.isLive),
    is_live_content |-> Bit(video.isLiveContent),
    is_upcoming     |-> Bit(video.isUpcoming),
    bookmarked      |-> 0 ]

\* the ON CONFLICT(video_id) DO UPDATE SET part: channel_id, published_at and
\* bookmarked are not in the SET list and keep their stored value
UpdatedRow(old, video) ==
  [ old EXCEPT !.title           = video.title,
               !.type            = video.type,
               !.is_live         = Bit(video.isLive),
               !.is_live_content = Bit(video.isLiveContent),
               !.is_upcoming     = Bit(video.isUpcoming) ]

\* a plausible slip: the title/type comparison is made before the live flags
upsertEventMut(existing, video) ==
  IF existing = <<>>
  THEN IF video.isLive THEN "live_started"
       ELSE IF video.isUpcoming THEN "scheduled_live"
       ELSE "new_video"
  ELSE IF existing[1].type # video.type \/ existing[1].title # video.title
       THEN "video_updated"
       ELSE IF existing[1].is_live = 0 /\ video.isLive THEN "live_started"
       ELSE IF existing[1].is_live # 0 /\ ~video.isLive THEN "live_ended"
       ELSE NullEvent

\* upsertVideo, "Determina o tipo de evento"
upsertEvent(existing, video) ==
  IF existing = <<>>
  THEN IF video.isLive THEN "live_started"
       ELSE IF video.isUpcoming THEN "scheduled_live"
       ELSE "new_video"
  ELSE IF existing[1].is_live = 0 /\ video.isLive THEN "live_started"
       ELSE IF existing[1].is_live # 0 /\ ~video.isLive THEN "live_ended"
       ELSE IF existing[1].type # video.type \/ existing[1].title # video.title
            THEN "video_updated"
       ELSE NullEvent

\* addEvent: one more row in events
addEvent(evs, eventType, videoId, channelId, now) ==
  evs (+) SetToBag({[event_type |-> eventType, video_id |-> videoId,
                     channel_id |-> channelId, created_at |-> now]})

\* upsertVideo: the tables after the call and the event it returns
upsertVideo(store, evs, video, channelId, now) ==
  LET existing == getVideo(store, video.videoId)
      row      == IF existing = <<>> THEN InsertedRow(video, channelId)
                  ELSE UpdatedRow(existing[1], video)
      event    == upsertEvent(existing, video)
  IN  [ videos |-> [id \in DOMAIN store \cup {video.videoId} |->
                      IF id = video.videoId THEN row ELSE store[id]],
        events |-> IF event # NullEvent
                   THEN addEvent(evs, event, video.videoId, channelId, now)
                   ELSE evs,
        event  |-> event ]

\* the rows of a bag that satisfy keep
BagKeep(B, keep(_)) == [r \in {x \in DOMAIN B : keep(x)} |-> B[r]]

\* deleteVideo: the events of the video, then the video
deleteVideo(store, evs, videoId) ==
  [ videos |-> [id \in DOMAIN store \ {videoId} |-> store[id]],
    events |-> LET Other(r) == r.video_id # videoId IN BagKeep(evs, Other) ]

\* deleteChannel: the events, the videos and the row of the channel
deleteChannel(store, evs, chans, channelId) ==
  [ videos   |-> [id \in {x \in DOMAIN store : store[x].channel_id # channelId} |-> store[id]],
    events   |-> LET Other(r) == r.channel_id # channelId IN BagKeep(evs, Other),
    channels |-> [c \in DOMAIN chans \ {channelId} |-> chans[c]] ]

\* getLiveVideos(channelId): WHERE is_live = 1 AND channel_id = $1
getLiveVideos(store, channelId) ==
  {id \in DOMAIN store : store[id].is_live = 1 /\ store[id].channel_id = channelId}

\* orders in which rows of equal published_at may be numbered
TieOrders == {t \in [VideoIds -> VideoIds] : \A a, b \in VideoIds : a # b => t[a] # t[b]}

\* ROW_NUMBER() OVER (PARTITION BY channel_id ORDER BY published_at DESC)
RowNumber(store, id, tie) ==
  1 + Cardinality({x \in DOMAIN store :
        /\ store[x].channel_id = store[id].channel_id
        /\ \/ store[x].published_at > store[id].published_at
           \/ store[x].published_at = store[id].published_at /\ tie[x] < tie[id]})

\* a plausible slip: the bookmark is not looked at
RankedMut(store, maxPerChannel, tie) ==
  {id \in DOMAIN store : RowNumber(store, id, tie) > maxPerChannel}

\* WHERE rn > $1 AND bookmarked = 0
Ranked(store, maxPerChannel, tie) ==
  {id \in DOMAIN store : RowNumber(store, id, tie) > maxPerChannel /\ store[id].bookmarked = 0}

\* cleanupOldVideos: events of the ranked videos, then the ranked videos
cleanupOldVideos(store, evs, maxPerChannel, tieE, tieV) ==
  [ videos |-> [id \in DOMAIN store \ Ranked(store, maxPerChannel, tieV) |-> store[id]],
    events |-> LET Kept(r) == r.video_id \notin Ranked(store, maxPerChannel, tieE)
               IN  BagKeep(evs, Kept) ]

\* polls per day at the default pollingInterval of 3 minutes
PollsPerDay == 480

MaxEventDays == 3

\* cleanupOldEvents: WHERE created_at < NOW() - days (time counted in polls)
cleanupOldEvents(evs, days, now) ==
  LET Recent(r) == ~(r.created_at < now - days * PollsPerDay) IN BagKeep(evs, Recent)

\* cleanupOrphanEvents: WHERE video_id NOT IN (SELECT video_id FROM videos)
cleanupOrphanEvents(store, evs) ==
  LET Owned(r) == r.video_id \in DOMAIN store IN BagKeep(evs, Owned)

\* runCleanup: cleanupOldVideos, cleanupOldEvents, cleanupOrphanEvents
runCleanup(store, evs, maxVideos, maxDays, now, tieE, tieV) ==
  LET a == cleanupOldVideos(store, evs, maxVideos, tieE, tieV)
      b == cleanupOldEvents(a.events, maxDays, now)
  IN  [ videos |-> a.videos, events |-> cleanupOrphanEvents(a.videos, b) ]

(***************************************************************************)
(* What the scraper hands to checkChannel (youtube-scraper.ts).            *)
(***************************************************************************)
\* getTypeFromFeed: the types a feed gives its items
FeedTypes == {"video", "short", "vod"}

\* an item of getChannelVideos with classifyVideos: false
FeedItem(id, type, title) ==
  [ videoId |-> id, title |-> title, publishedAt |-> id, type |-> type,
    isLive |-> FALSE, isLiveContent |-> (type = "vod"), isUpcoming |-> FALSE, duration |-> 0 ]

\* the item checkLiveStatus returns: type live, isLive true, publishedAt = new Date()
LiveItem(id, title, now) ==
  [ videoId |-> id, title |-> title, publishedAt |-> now, type |-> "live",
    isLive |-> TRUE, isLiveContent |-> FALSE, isUpcoming |-> FALSE, duration |-> 0 ]

\* the titles the scraped documents carry
ScrapedTitles == {"t1"}

RECURSIVE BuildList(_, _)
BuildList(f, n) ==
  IF n = 0 THEN <<>>
  ELSE BuildList(f, n - 1) \o (IF f[n] = <<>> THEN <<>> ELSE <<FeedItem(n, f[n][1], f[n][2])>>)

\* the results of getChannelVideos: one record per identifier (deduplicateVideos),
\* at most maxVideosPerFeed of each feed
FeedLists(maxVideosPerFeed) ==
  { BuildList(f, NumVideos) :
      f \in { g \in [VideoIds -> {<<>>} \cup (FeedTypes \X ScrapedTitles)] :
                \A t \in FeedTypes :
                  Cardinality({v \in VideoIds : g[v] # <<>> /\ g[v][1] = t}) <= maxVideosPerFeed } }

\* the time of a pass, later than every published time of a feed
Now(c) == NumVideos + c

\* the results of checkLiveStatus: nothing, or an item found in the document
ProbeResults(now) ==
  {<<>>} \cup {<<LiveItem(id, t, now)>> : id \in VideoIds, t \in ScrapedTitles}

(***************************************************************************)
(* One channel check and one pass (services/monitor.ts).                   *)
(***************************************************************************)
ShortsTagged == {"clip #Shorts"}

\* video.title.toLowerCase().includes('#shorts')
HasShortsTag(title) == title \in ShortsTagged

\* shortVideoIds: the ids of the items of type short
ShortVideoIds(list) == {list[i].videoId : i \in {j \in DOMAIN list : list[j].type = "short"}}

\* the filters of the loop of checkChannel: the items that are upserted
Survives(video, shortVideoIds) ==
  /\ video.type # "short"
  /\ ~(video.duration # 0 /\ video.duration < 120)
  /\ video.videoId \notin shortVideoIds
  /\ ~HasShortsTag(video.title)
  /\ ~(video.type = "vod" \/ video.isLiveContent)
  /\ ~(video.type = "live" \/ video.isLive)
  /\ video.type = "video"

\* a plausible slip: the saved lives of every channel are compared with the probe
EndedLivesMut(store, channelId, currentLive) ==
  {id \in DOMAIN store : store[id].is_live = 1 /\
                         (currentLive = <<>> \/ id # currentLive[1].videoId)}

\* cleanupEndedLives: the saved lives that are deleted
EndedLives(store, channelId, currentLive) ==
  {id \in getLiveVideos(store, channelId) : currentLive = <<>> \/ id # currentLive[1].videoId}

RECURSIVE DeleteAll(_, _, _)
DeleteAll(store, evs, ids) ==
  IF ids = {} THEN [videos |-> store, events |-> evs]
  ELSE LET id == CHOOSE x \in ids : TRUE
           d  == deleteVideo(store, evs, id)
       IN  DeleteAll(d.videos, d.events, ids \ {id})

\* cleanupEndedLives
cleanupEndedLives(store, evs, channelId, currentLive) ==
  DeleteAll(store, evs, EndedLives(store, channelId, currentLive))

\* the orders in which getActiveChannels may list the active channels
ActiveOrders ==
  LET active == {c \in DOMAIN channels : channels[c].is_active = 1}
  IN  {q \in [1 .. Cardinality(active) -> active] : \A i, j \in DOMAIN q : i # j => q[i] # q[j]}

\* history: the item is one the loop of checkChannel upserts
PlainIn(list, v) ==
  \E i \in DOMAIN list : list[i].videoId = v /\ Survives(list[i], ShortVideoIds(list))

TitleIn(list, v) == list[CHOOSE i \in DOMAIN list : list[i].videoId = v].title

\* history: the sighting of v after a check of channel c begins with feed list and probe live
NextSighting(v, c, list, live) ==
  LET cur   == sighting[v]
      fresh == [chan |-> c, title |-> TitleIn(list, v), first |-> cycle,
                absent |-> v \notin DOMAIN videos]
  IN  IF live # <<>> /\ live[1].videoId = v THEN <<>>
      ELSE IF cur # <<>> /\ cur[1].chan # c
           THEN IF \E i \in DOMAIN list : list[i].videoId = v THEN <<>> ELSE cur
      ELSE IF ~PlainIn(list, v) THEN <<>>
      ELSE IF cur # <<>> /\ cur[1].title = TitleIn(list, v) THEN cur
      ELSE <<fresh>>

\* history: the streak of channel c after a check of c begins with probe live
NextStreak(c, live) ==
  IF live = <<>> THEN <<>>
  ELSE IF streak[c] # <<>> /\ streak[c][1].videoId = live[1].videoId THEN streak[c]
  ELSE <<[videoId |-> live[1].videoId, started |-> 0]>>

\* history: a live_started emitted for the streak item of the running check
CountStarted(event, videoId) ==
  [c \in Channels |->
     IF /\ c = run.channelId /\ event = "live_started"
        /\ streak[c] # <<>> /\ streak[c][1].videoId = videoId
     THEN <<[streak[c][1] EXCEPT !.started = @ + 1]>>
     ELSE streak[c]]

\* this.emit(event, video, channelInfo)
Emit(event, videoId) ==
  /\ emitted' = Append(emitted, [event |-> event, videoId |-> videoId])
  /\ streak' = CountStarted(event, videoId)

\* checkAllChannels, up to the loop over the active channels
PassBegin ==
  /\ pass.pc \in {"idle", "aborted"}
  /\ run.pc = "idle"
  /\ cycle < MaxCycles
  /\ cycle' = cycle + 1
  /\ \E q \in ActiveOrders :
       pass' = [PassIdle EXCEPT !.pc = "checking", !.todo = q, !.list = q]
  /\ UNCHANGED <<config, channelCache, run, emitted, sighting, streak, ended, errorListener,
                 deleted>>
  /\ UNCHANGED storeVars
  /\ UNCHANGED upVars
  /\ UNCHANGED httpVars
  /\ UNCHANGED lifeVars
  /\ UNCHANGED fnVars

\* checkChannel, up to the results of getChannelVideos and checkLiveStatus
CheckChannelBegin ==
  /\ pass.pc = "checking"
  /\ pass.todo # <<>>
  /\ run.pc = "idle"
  /\ LET c == Head(pass.todo)
     IN  IF c \notin DOMAIN channels
         THEN /\ channelCache' = channelCache \ {c}
              /\ pass' = [pass EXCEPT !.todo = Tail(@), !.checked = Append(@, c)]
              /\ run' = [RunIdle EXCEPT !.channelId = c, !.cycle = cycle]
              /\ emitted' = <<>>
              /\ UNCHANGED <<sighting, streak, ended>>
         ELSE /\ channelCache' = channelCache \cup {c}
              /\ \E list \in FeedLists(config.maxVideosPerFeed), live \in ProbeResults(Now(cycle)) :
                   /\ run' = [ pc |-> "live", channelId |-> c, cycle |-> cycle,
                               videos |-> list, liveNow |-> live, idx |-> 1,
                               shortVideoIds |-> ShortVideoIds(list), channelInfo |-> TRUE ]
                   /\ sighting' = [v \in VideoIds |-> NextSighting(v, c, list, live)]
                   /\ streak' = [streak EXCEPT ![c] = NextStreak(c, live)]
                   /\ ended' = [ended EXCEPT ![c] =
                                  IF live = <<>> /\ streak[c] # <<>>
                                  THEN streak[c][1].videoId ELSE 0]
              /\ emitted' = <<>>
              /\ pass' = [pass EXCEPT !.checked = Append(@, c)]
  /\ UNCHANGED <<config, cycle, errorListener, deleted>>
  /\ UNCHANGED storeVars
  /\ UNCHANGED upVars
  /\ UNCHANGED httpVars
  /\ UNCHANGED lifeVars
  /\ UNCHANGED fnVars

\* upsertVideo when the row of channelId may be gone: videos.channel_id and
\* events.channel_id reference channels, so the INSERT of a new row throws, and
\* for a stored row the UPDATE is done and the INSERT of the event throws
upsertOrThrow(store, evs, chans, video, channelId, now) ==
  LET r == upsertVideo(store, evs, video, channelId, now)
  IN  IF channelId \in DOMAIN chans
      THEN [videos |-> r.videos, events |-> r.events, event |-> r.event, threw |-> FALSE]
      ELSE IF getVideo(store, video.videoId) = <<>>
      THEN [videos |-> store, events |-> evs, event |-> NullEvent, threw |-> TRUE]
      ELSE [videos |-> r.videos, events |-> evs, event |-> NullEvent,
            threw |-> r.event # NullEvent]

\* checkChannel: the catch block. this.emit('error', error, channelId) calls the
\* listeners, or throws the error when none is registered: then checkChannel
\* rejects and so does the checkAllChannels awaiting it
CatchError ==
  /\ run' = [RunIdle EXCEPT !.channelId = run.channelId, !.cycle = run.cycle]
  /\ pass' = IF errorListener
             THEN [pass EXCEPT !.todo = Tail(@), !.failed = Append(@, run.channelId),
                               !.errors = Append(@, run.channelId)]
             ELSE [pass EXCEPT !.pc = "aborted", !.failed = Append(@, run.channelId)]

\* checkChannel: the upsert of the live probe's item
UpsertLiveNow ==
  /\ run.pc = "live"
  /\ IF run.liveNow # <<>> /\ run.channelInfo
     THEN LET r == upsertOrThrow(videos, events, channels, run.liveNow[1], run.channelId,
                                 Now(cycle))
          IN  /\ videos' = r.videos
              /\ events' = r.events
              /\ IF r.event # NullEvent
                 THEN Emit(r.event, run.liveNow[1].videoId)
                 ELSE UNCHANGED <<emitted, streak>>
              /\ IF r.threw
                 THEN CatchError
                 ELSE run' = [run EXCEPT !.pc = "feed"] /\ UNCHANGED pass
     ELSE /\ UNCHANGED <<videos, events, emitted, streak, pass>>
          /\ run' = [run EXCEPT !.pc = "feed"]
  /\ UNCHANGED <<config, channelCache, cycle, sighting, ended, channels, errorListener,
                 deleted>>
  /\ UNCHANGED upVars
  /\ UNCHANGED httpVars
  /\ UNCHANGED lifeVars
  /\ UNCHANGED fnVars

\* checkChannel: one turn of the loop over the items of the feeds
ProcessFeedVideo ==
  /\ run.pc = "feed"
  /\ run.idx <= Len(run.videos)
  /\ LET video == run.videos[run.idx]
     IN  IF Survives(video, run.shortVideoIds)
         THEN LET r == upsertOrThrow(videos, events, channels, video, run.channelId,
                                     Now(cycle))
              IN  /\ videos' = r.videos
                  /\ events' = r.events
                  /\ IF r.event # NullEvent /\ run.channelInfo
                     THEN Emit(r.event, video.videoId)
                     ELSE UNCHANGED <<emitted, streak>>
                  /\ IF r.threw
                     THEN CatchError
                     ELSE run' = [run EXCEPT !.idx = @ + 1] /\ UNCHANGED pass
         ELSE /\ UNCHANGED <<videos, events, emitted, streak, pass>>
              /\ run' = [run EXCEPT !.idx = @ + 1]
  /\ UNCHANGED <<config, channelCache, cycle, sighting, ended, channels, errorListener,
                 deleted>>
  /\ UNCHANGED upVars
  /\ UNCHANGED httpVars
  /\ UNCHANGED lifeVars
  /\ UNCHANGED fnVars

\* checkChannel: a store operation of the running check throws (the store is
\* unreachable, a query fails)
CheckChannelFails ==
  /\ run.pc \in {"live", "feed"}
  /\ CatchError
  /\ UNCHANGED <<config, channelCache, cycle, emitted, sighting, streak, ended, errorListener,
                 deleted>>
  /\ UNCHANGED storeVars
  /\ UNCHANGED upVars
  /\ UNCHANGED httpVars
  /\ UNCHANGED lifeVars
  /\ UNCHANGED fnVars

\* deleteChannel, called on the store by another client of it while the
\* monitor runs
DeleteChannel ==
  /\ \E c \in DOMAIN channels :
       LET r == deleteChannel(videos, events, channels, c)
       IN  /\ videos' = r.videos
           /\ events' = r.events
           /\ channels' = r.channels
           /\ deleted' = [deleted EXCEPT ![c] = IF c \in channelCache THEN cycle + 1 ELSE 0]
  /\ UNCHANGED <<config, channelCache, cycle, pass, run, emitted, sighting, streak, ended,
                 errorListener>>
  /\ UNCHANGED upVars
  /\ UNCHANGED httpVars
  /\ UNCHANGED lifeVars
  /\ UNCHANGED fnVars

\* checkChannel: cleanupEndedLives, updateChannelLastChecked and the return
CheckChannelEnd ==
  /\ run.pc = "feed"
  /\ run.idx > Len(run.videos)
  /\ LET r == cleanupEndedLives(videos, events, run.channelId, run.liveNow)
     IN  /\ videos' = r.videos
         /\ events' = r.events
  /\ channels' = [c \in DOMAIN channels |->
                    IF c = run.channelId
                    THEN [channels[c] EXCEPT !.last_checked_at = Now(cycle)]
                    ELSE channels[c]]
  /\ run' = [RunIdle EXCEPT !.channelId = run.channelId, !.cycle = run.cycle]
  /\ pass' = [pass EXCEPT !.todo = Tail(@)]
  /\ UNCHANGED <<config, channelCache, cycle, emitted, sighting, streak, ended, errorListener,
                 deleted>>
  /\ UNCHANGED upVars
  /\ UNCHANGED httpVars
  /\ UNCHANGED lifeVars
  /\ UNCHANGED fnVars

\* checkAllChannels: runCleanup and cycle_complete after the last channel
PassEnd ==
  /\ pass.pc = "checking"
  /\ pass.todo = <<>>
  /\ run.pc = "idle"
  /\ \E tieE \in TieOrders, tieV \in TieOrders :
       LET r == runCleanup(videos, events, config.maxVideosPerChannel, MaxEventDays,
                           Now(cycle), tieE, tieV)
       IN  /\ videos' = r.videos
           /\ events' = r.events
  /\ pass' = PassIdle
  /\ UNCHANGED <<config, channelCache, cycle, run, emitted, sighting, streak, ended, channels,
                 errorListener, deleted>>
  /\ UNCHANGED upVars
  /\ UNCHANGED httpVars
  /\ UNCHANGED lifeVars
  /\ UNCHANGED fnVars

MaxConfig == 2

MonitorInit ==
  /\ videos = <<>>
  /\ events = EmptyBag
  /\ channels = [c \in Channels |-> [is_active |-> 1, last_checked_at |-> 0]]
  /\ \E f \in 1 .. MaxConfig, k \in 1 .. MaxConfig :
       config = [maxVideosPerFeed |-> f, maxVideosPerChannel |-> k]
  /\ channelCache = {}
  /\ cycle = 0
  /\ pass = PassIdle
  /\ run = RunIdle
  /\ emitted = <<>>
  /\ sighting = [v \in VideoIds |-> <<>>]
  /\ streak = [c \in Channels |-> <<>>]
  /\ ended = [c \in Channels |-> 0]
  /\ errorListener = TRUE
  /\ deleted = [c \in Channels |-> 0]
  /\ UpsertIdle
  /\ HttpIdle
  /\ LifeIdle
  /\ FnIdle

MonitorNext ==
  \/ PassBegin
  \/ CheckChannelBegin
  \/ UpsertLiveNow
  \/ ProcessFeedVideo
  \/ CheckChannelEnd
  \/ PassEnd

\* passes over the channels with the feeds cut to no item (the items are those
\* of the live probe), with or without a listener of 'error'
PassInit ==
  /\ videos = <<>>
  /\ events = EmptyBag
  /\ channels = [c \in Channels |-> [is_active |-> 1, last_checked_at |-> 0]]
  /\ config = [maxVideosPerFeed |-> 0, maxVideosPerChannel |-> MaxConfig]
  /\ channelCache = {}
  /\ cycle = 0
  /\ pass = PassIdle
  /\ run = RunIdle
  /\ emitted = <<>>
  /\ sighting = [v \in VideoIds |-> <<>>]
  /\ streak = [c \in Channels |-> <<>>]
  /\ ended = [c \in Channels |-> 0]
  /\ errorListener \in BOOLEAN
  /\ deleted = [c \in Channels |-> 0]
  /\ UpsertIdle
  /\ HttpIdle
  /\ LifeIdle
  /\ FnIdle

PassNext ==
  \/ PassBegin
  \/ CheckChannelBegin
  \/ UpsertLiveNow
  \/ CheckChannelFails
  \/ CheckChannelEnd
  \/ PassEnd
  \/ DeleteChannel

(***************************************************************************)
(* The fetch client (http-client.ts).                                      *)
(***************************************************************************)
\* maxConcurrent as the monitor's scraper sets it; smaller gates are explored too
MaxConcurrent == 2

\* options.maxRetries ?? 3; smaller retry counts are explored too
MaxRetries == 3

\* a plausible slip: a permit is granted when none is left
AcquireGrantedMut(p) == p >= 0

\* Semaphore.acquire: if (this.permits > 0)
AcquireGranted(p) == p > 0

\* a plausible slip: only 404 is treated as final
NonRetryableMut(status) == status = "404"

\* lastError.status === 404 || lastError.status === 403
NonRetryable(status) == status \in {"404", "403"}

\* a plausible slip: the delay is not capped
getBackoffDelayMut(attempt) == 1000 * (2 ^ attempt)

\* getBackoffDelay: min(1000 * 2^attempt, 30000)
getBackoffDelay(attempt) ==
  LET d == 1000 * (2 ^ attempt) IN IF d < 30000 THEN d ELSE 30000

\* parseInt(response.headers.get('Retry-After') || '60') for a 429 response
\* without the header
DefaultRetryAfter == 60

\* the call holds a permit: it passed acquire and has not reached release
Admitted(c) == calls[c].pc \in {"acquired", "delaying", "inflight", "sleep429", "backoff"}

\* a plausible slip: the newest waiter is resumed (queue.pop() for queue.shift())
ReleaseMut(c, after) ==
  IF queue # <<>>
  THEN /\ queue' = SubSeq(queue, 1, Len(queue) - 1)
       /\ permits' = permits
       /\ calls' = [after EXCEPT ![queue[Len(queue)]].pc = "acquired"]
  ELSE /\ queue' = queue
       /\ permits' = permits + 1
       /\ calls' = after

\* Semaphore.release in the finally of get: the oldest waiter is resumed with
\* the permit, or the permit is returned
Release(c, after) ==
  IF queue # <<>>
  THEN /\ queue' = Tail(queue)
       /\ permits' = permits
       /\ calls' = [after EXCEPT ![Head(queue)].pc = "acquired"]
  ELSE /\ queue' = queue
       /\ permits' = permits + 1
       /\ calls' = after

\* get, up to the end of semaphore.acquire
Get(c) ==
  /\ calls[c].pc = "idle"
  /\ UNCHANGED <<storeVars, upVars, monVars, lifeVars, fnVars, options, paceVars>>
  /\ IF AcquireGranted(permits)
     THEN /\ permits' = permits - 1
          /\ queue' = queue
          /\ calls' = [calls EXCEPT ![c].pc = "acquired"]
     ELSE /\ permits' = permits
          /\ queue' = Append(queue, c)
          /\ calls' = [calls EXCEPT ![c].pc = "waiting"]

\* get: randomDelay, then the first turn of the loop sends the request
FirstSend(c) ==
  /\ calls[c].pc = "acquired"
  /\ UNCHANGED <<storeVars, upVars, monVars, lifeVars, fnVars, options, paceVars>>
  /\ calls' = [calls EXCEPT ![c].pc = "inflight", ![c].sends = @ + 1]
  /\ UNCHANGED <<permits, queue>>

\* a plausible slip: the permit is not given back when get throws on 404 or 403
RespondedMut(c, r) ==
     LET got == [calls EXCEPT ![c].lastResp = r]
     IN  IF r = "ok"
         THEN Release(c, [got EXCEPT ![c].pc = "done"])
         ELSE IF r = "429"
         THEN /\ calls' = [got EXCEPT ![c].pc = "sleep429", ![c].sleep = DefaultRetryAfter * 1000]
              /\ UNCHANGED <<permits, queue>>
         ELSE IF NonRetryable(r)
         THEN /\ calls' = [got EXCEPT ![c].pc = "failed", ![c].lastError = r, ![c].error = r]
              /\ UNCHANGED <<permits, queue>>
         ELSE IF calls[c].attempt < options.maxRetries - 1
         THEN /\ calls' = [got EXCEPT ![c].pc = "backoff", ![c].lastError = r,
                                     ![c].sleep = getBackoffDelay(calls[c].attempt)]
              /\ UNCHANGED <<permits, queue>>
         ELSE Release(c, [got EXCEPT ![c].pc = "failed", ![c].lastError = r, ![c].error = r,
                                     ![c].attempt = @ + 1])

\* get: the loop body from the end of a send with response r to its next await
Responded(c, r) ==
     LET got == [calls EXCEPT ![c].lastResp = r]
     IN  IF r = "ok"
         THEN Release(c, [got EXCEPT ![c].pc = "done"])
         ELSE IF r = "429"
         THEN /\ calls' = [got EXCEPT ![c].pc = "sleep429", ![c].sleep = DefaultRetryAfter * 1000]
              /\ UNCHANGED <<permits, queue>>
         ELSE IF NonRetryable(r)
         THEN Release(c, [got EXCEPT ![c].pc = "failed", ![c].lastError = r, ![c].error = r])
         ELSE IF calls[c].attempt < options.maxRetries - 1
         THEN /\ calls' = [got EXCEPT ![c].pc = "backoff", ![c].lastError = r,
                                     ![c].sleep = getBackoffDelay(calls[c].attempt)]
              /\ UNCHANGED <<permits, queue>>
         ELSE Release(c, [got EXCEPT ![c].pc = "failed", ![c].lastError = r, ![c].error = r,
                                     ![c].attempt = @ + 1])

\* get: the send ends with response r; the loop body runs up to its next await
Respond(c, r) ==
  /\ calls[c].pc = "inflight"
  /\ UNCHANGED <<storeVars, upVars, monVars, lifeVars, fnVars, options, paceVars>>
  /\ Responded(c, r)

\* a plausible slip: the loop runs while attempt <= maxRetries
WokenMut(c) ==
     IF calls[c].attempt + 1 <= options.maxRetries
     THEN /\ calls' = [calls EXCEPT ![c].pc = "inflight", ![c].attempt = @ + 1,
                                    ![c].sends = @ + 1, ![c].sleep = 0]
          /\ UNCHANGED <<permits, queue>>
     ELSE Release(c, [calls EXCEPT ![c].pc = "failed", ![c].attempt = @ + 1, ![c].sleep = 0,
                                   ![c].error = IF calls[c].lastError # "none"
                                                THEN calls[c].lastError
                                                ELSE "Request failed"])

\* get: after a sleep, attempt++ and the next turn of the loop sends again, or
\* the loop is over and get throws
Woken(c) ==
     IF calls[c].attempt + 1 < options.maxRetries
     THEN /\ calls' = [calls EXCEPT ![c].pc = "inflight", ![c].attempt = @ + 1,
                                    ![c].sends = @ + 1, ![c].sleep = 0]
          /\ UNCHANGED <<permits, queue>>
     ELSE Release(c, [calls EXCEPT ![c].pc = "failed", ![c].attempt = @ + 1, ![c].sleep = 0,
                                   ![c].error = IF calls[c].lastError # "none"
                                                THEN calls[c].lastError
                                                ELSE "Request failed"])

\* get: a sleep ends (rate-limit cooldown or backoff)
Wake(c) ==
  /\ calls[c].pc \in {"sleep429", "backoff"}
  /\ UNCHANGED <<storeVars, upVars, monVars, lifeVars, fnVars, options, paceVars>>
  /\ Woken(c)

\* new HttpClient(options): the semaphore starts with maxConcurrent permits
HttpInit ==
  /\ \E k \in 1 .. MaxConcurrent, m \in 1 .. MaxRetries :
       options = [maxConcurrent |-> k, maxRetries |-> m]
  /\ permits = options.maxConcurrent
  /\ queue = <<>>
  /\ calls = [c \in Calls |-> NoCall]
  /\ PaceIdle
  /\ videos = <<>>
  /\ events = EmptyBag
  /\ channels = [c \in Channels |-> [is_active |-> 1, last_checked_at |-> 0]]
  /\ MonitorIdle
  /\ UpsertIdle
  /\ LifeIdle
  /\ FnIdle

HttpNext ==
  \/ \E c \in Calls : Get(c)
  \/ \E c \in Calls : FirstSend(c)
  \/ \E c \in Calls, r \in Responses : Respond(c, r)
  \/ \E c \in Calls : Wake(c)

(***************************************************************************)
(* The Semaphore of the fetch client on its own (http-client.ts): every    *)
(* call acquires once and releases once.  fnArg is the list of the calls   *)
(* that were queued, in the order of their push, and fnRet the list of the *)
(* admissions: the call, whether it was resumed from the queue and how     *)
(* many calls were queued when it was admitted.                            *)
(***************************************************************************)
GateInit ==
  /\ \E k \in 1 .. MaxConcurrent : options = [maxConcurrent |-> k, maxRetries |-> 1]
  /\ permits = options.maxConcurrent
  /\ queue = <<>>
  /\ calls = [c \in Calls |-> NoCall]
  /\ PaceIdle
  /\ fnPc = "idle"
  /\ fnArg = <<>>
  /\ fnRet = <<>>
  /\ videos = <<>>
  /\ events = EmptyBag
  /\ channels = [c \in Channels |-> [is_active |-> 1, last_checked_at |-> 0]]
  /\ MonitorIdle
  /\ UpsertIdle
  /\ LifeIdle

\* Semaphore.acquire
Acquire(c) ==
  /\ calls[c].pc = "idle"
  /\ IF AcquireGranted(permits)
     THEN /\ permits' = permits - 1
          /\ queue' = queue
          /\ calls' = [calls EXCEPT ![c].pc = "acquired"]
          /\ fnRet' = Append(fnRet, [call |-> c, resumed |-> FALSE, queued |-> Len(queue)])
          /\ fnArg' = fnArg
     ELSE /\ permits' = permits
          /\ queue' = Append(queue, c)
          /\ calls' = [calls EXCEPT ![c].pc = "waiting"]
          /\ fnRet' = fnRet
          /\ fnArg' = Append(fnArg, c)
  /\ UNCHANGED <<options, paceVars, fnPc>>
  /\ UNCHANGED storeVars
  /\ UNCHANGED upVars
  /\ UNCHANGED monVars
  /\ UNCHANGED lifeVars

\* Semaphore.release by a call that holds a permit
ReleaseBy(c) ==
  /\ calls[c].pc = "acquired"
  /\ Release(c, [calls EXCEPT ![c].pc = "done"])
  /\ LET resumed == {w \in Calls : calls[w].pc = "waiting" /\ calls'[w].pc = "acquired"}
     IN  fnRet' = IF resumed = {} THEN fnRet
                  ELSE Append(fnRet, [call |-> CHOOSE w \in resumed : TRUE, resumed |-> TRUE,
                                      queued |-> Len(queue)])
  /\ UNCHANGED <<options, paceVars, fnPc, fnArg>>
  /\ UNCHANGED storeVars
  /\ UNCHANGED upVars
  /\ UNCHANGED monVars
  /\ UNCHANGED lifeVars

GateNext ==
  \/ \E c \in Calls : Acquire(c)
  \/ \E c \in Calls : ReleaseBy(c)

(***************************************************************************)
(* Three get calls of one client under every outcome of every send, where  *)
(* each send and each sleep in progress comes to its end (fetch resolves   *)
(* or rejects, the AbortController timer or the sleep timer fires).        *)
(***************************************************************************)
AttemptsNext ==
  \/ \E c \in {1, 2, 3} : Get(c)
  \/ \E c \in {1, 2, 3} : FirstSend(c)
  \/ \E c \in {1, 2, 3}, r \in Responses : Respond(c, r)
  \/ \E c \in {1, 2, 3} : Wake(c)

(***************************************************************************)
(* The fetch client with time: randomDelay, the sends and the sleeps of    *)
(* get on a clock whose unit is the minDelay of the monitor's scraper.     *)
(***************************************************************************)
\* minDelay and maxDelay as the monitor's scraper sets them, in ms
MinDelay == 200

MaxDelay == 800

\* the time units the clock runs after the client is made
Horizon == 5

Ticks(ms) == ms \div MinDelay

\* Math.floor(Math.random() * (maxDelay - minDelay) + minDelay)
Delays == Ticks(options.minDelay) .. Ticks(options.maxDelay) - 1

\* history: a send at time t
Logged(t) ==
  [ last    |-> t,
    closest |-> IF sent.last # -1 /\ t - sent.last < sent.closest
                THEN t - sent.last ELSE sent.closest ]

\* the turn of the loop of get up to its await of fetch
Send(c) ==
  /\ calls' = [calls EXCEPT ![c].pc = "inflight", ![c].sends = @ + 1]
  /\ sent' = Logged(clock)

\* new HttpClient(options) at a time later than maxDelay after the epoch
PaceInit ==
  /\ \E m \in 1 .. MaxRetries :
       options = [maxConcurrent |-> MaxConcurrent, maxRetries |-> m,
                  minDelay |-> MinDelay, maxDelay |-> MaxDelay]
  /\ permits = options.maxConcurrent
  /\ queue = <<>>
  /\ calls = [c \in Calls |-> NoCall]
  /\ clock = Ticks(options.maxDelay)
  /\ lastRequestTime = 0
  /\ timeouts = [c \in Calls |-> 0]
  /\ sent = [last |-> -1, closest |-> Horizon + 1]
  /\ videos = <<>>
  /\ events = EmptyBag
  /\ channels = [c \in Channels |-> [is_active |-> 1, last_checked_at |-> 0]]
  /\ MonitorIdle
  /\ UpsertIdle
  /\ LifeIdle
  /\ FnIdle

\* randomDelay up to its await of sleep, or, when enough time has elapsed, to
\* its end and on to the first send
RandomDelay(c) ==
  /\ calls[c].pc = "acquired"
  /\ UNCHANGED <<storeVars, upVars, monVars, lifeVars, fnVars, options>>
  /\ UNCHANGED <<permits, queue, clock>>
  /\ \E delay \in Delays :
       LET elapsed == clock - lastRequestTime
       IN  IF elapsed < delay
           THEN /\ calls' = [calls EXCEPT ![c].pc = "delaying"]
                /\ timeouts' = [timeouts EXCEPT ![c] = clock + (delay - elapsed)]
                /\ UNCHANGED <<lastRequestTime, sent>>
           ELSE /\ lastRequestTime' = clock
                /\ Send(c)
                /\ UNCHANGED timeouts

\* the sleep of randomDelay is over: lastRequestTime = Date.now() and the
\* first send
DelayOver(c) ==
  /\ calls[c].pc = "delaying"
  /\ timeouts[c] <= clock
  /\ UNCHANGED <<storeVars, upVars, monVars, lifeVars, fnVars, options>>
  /\ UNCHANGED <<permits, queue, clock>>
  /\ timeouts' = [timeouts EXCEPT ![c] = 0]
  /\ lastRequestTime' = clock
  /\ Send(c)

\* the send ends with response r; a sleep of the loop is due when its
\* milliseconds have run
TimedRespond(c, r) ==
  /\ calls[c].pc = "inflight"
  /\ UNCHANGED <<storeVars, upVars, monVars, lifeVars, fnVars, options>>
  /\ Responded(c, r)
  /\ timeouts' = IF calls'[c].pc \in {"sleep429", "backoff"}
                 THEN [timeouts EXCEPT ![c] = clock + Ticks(calls'[c].sleep)]
                 ELSE timeouts
  /\ UNCHANGED <<clock, lastRequestTime, sent>>

\* a sleep of the loop is over: the next send follows at once, randomDelay is
\* not called again
TimedWake(c) ==
  /\ calls[c].pc \in {"sleep429", "backoff"}
  /\ timeouts[c] <= clock
  /\ UNCHANGED <<storeVars, upVars, monVars, lifeVars, fnVars, options>>
  /\ Woken(c)
  /\ timeouts' = [timeouts EXCEPT ![c] = 0]
  /\ sent' = IF calls'[c].pc = "inflight" THEN Logged(clock) ELSE sent
  /\ UNCHANGED <<clock, lastRequestTime>>

\* time passes when no timeout is due
Elapse ==
  /\ clock < Ticks(options.maxDelay) + Horizon
  /\ \A c \in Calls : timeouts[c] = 0 \/ timeouts[c] > clock
  /\ clock' = clock + 1
  /\ UNCHANGED <<storeVars, upVars, monVars, lifeVars, fnVars, options>>
  /\ UNCHANGED <<permits, queue, calls, lastRequestTime, timeouts, sent>>

PaceNext ==
  \/ \E c \in Calls : Get(c)
  \/ \E c \in Calls : RandomDelay(c)
  \/ \E c \in Calls : DelayOver(c)
  \/ \E c \in Calls, r \in Responses : TimedRespond(c, r)
  \/ \E c \in Calls : TimedWake(c)
  \/ Elapse

(***************************************************************************)
(* One get call of a client whose every send fails with a retryable        *)
(* failure, for retry counts long enough for the backoff to reach its cap. *)
(***************************************************************************)
LongRetries == 7

\* a timeout, a connection failure, an HTTP status other than 429, 404, 403
RetryableFailures == Responses \ {"ok", "429", "404", "403"}

RetryInit ==
  /\ \E k \in 1 .. MaxConcurrent, m \in 1 .. LongRetries :
       options = [maxConcurrent |-> k, maxRetries |-> m]
  /\ permits = options.maxConcurrent
  /\ queue = <<>>
  /\ calls = [c \in Calls |-> NoCall]
  /\ PaceIdle
  /\ videos = <<>>
  /\ events = EmptyBag
  /\ channels = [c \in Channels |-> [is_active |-> 1, last_checked_at |-> 0]]
  /\ MonitorIdle
  /\ UpsertIdle
  /\ LifeIdle
  /\ FnIdle

RetryNext ==
  \/ Get(1)
  \/ FirstSend(1)
  \/ \E r \in RetryableFailures : Respond(1, r)
  \/ Wake(1)

(***************************************************************************)
(* The start/stop life cycle of the monitor (services/monitor.ts).         *)
(***************************************************************************)
\* this.checkAllChannels() without await: one more pass is under way
Launch(h) ==
  /\ inFlight' = inFlight + 1
  /\ hist' = [h EXCEPT !.late = h.late \/ h.quiet]

\* start, up to its await of initialize
StartCall ==
  /\ hist.starts < MaxStarts
  /\ UNCHANGED <<storeVars, upVars, monVars, httpVars, fnVars>>
  /\ hist' = [hist EXCEPT !.starts = @ + 1, !.quiet = FALSE]
  /\ starting' = IF isRunning THEN starting ELSE starting + 1
  /\ UNCHANGED <<isRunning, initialized, pollingTimer, timers, inFlight, checks>>

\* start, from the end of initialize to its end
StartResume ==
  /\ starting > 0
  /\ UNCHANGED <<storeVars, upVars, monVars, httpVars, fnVars>>
  /\ starting' = starting - 1
  /\ initialized' = TRUE
  /\ isRunning' = TRUE
  /\ Launch([hist EXCEPT !.immediate = @ + 1])
  /\ LET handle == hist.immediate + 1
     IN  /\ timers' = timers \cup {handle}
         /\ pollingTimer' = handle
  /\ UNCHANGED checks

\* stop
Stop ==
  /\ hist.stops < MaxStops
  /\ UNCHANGED <<storeVars, upVars, monVars, httpVars, fnVars>>
  /\ hist' = [hist EXCEPT !.stops = @ + 1, !.quiet = TRUE]
  /\ IF ~isRunning
     THEN UNCHANGED <<isRunning, pollingTimer, timers>>
     ELSE /\ isRunning' = FALSE
          /\ timers' = timers \ {pollingTimer}
          /\ pollingTimer' = 0
  /\ UNCHANGED <<initialized, starting, inFlight, checks>>

\* an armed interval timer fires
Tick ==
  /\ hist.ticks < MaxTicks
  /\ UNCHANGED <<storeVars, upVars, monVars, httpVars, fnVars>>
  /\ \E h \in timers : Launch([hist EXCEPT !.ticks = @ + 1])
  /\ UNCHANGED <<isRunning, initialized, pollingTimer, timers, starting, checks>>

\* a pass that is not inside a checkChannel run calls checkChannel for its
\* next channel and waits for it
PassChecks ==
  /\ inFlight > checks.pass
  /\ UNCHANGED <<storeVars, upVars, monVars, httpVars, fnVars>>
  /\ checks' = [checks EXCEPT !.pass = @ + 1]
  /\ UNCHANGED <<isRunning, initialized, pollingTimer, timers, starting, inFlight, hist>>

\* the checkChannel run of a pass returns
PassCheckReturns ==
  /\ checks.pass > 0
  /\ UNCHANGED <<storeVars, upVars, monVars, httpVars, fnVars>>
  /\ checks' = [checks EXCEPT !.pass = @ - 1]
  /\ UNCHANGED <<isRunning, initialized, pollingTimer, timers, starting, inFlight, hist>>

\* addChannel has saved the channel and calls checkChannel for it
AddChannel ==
  /\ checks.add < MaxAdds
  /\ UNCHANGED <<storeVars, upVars, monVars, httpVars, fnVars>>
  /\ checks' = [checks EXCEPT !.add = @ + 1]
  /\ UNCHANGED <<isRunning, initialized, pollingTimer, timers, starting, inFlight, hist>>

\* the checkChannel run of addChannel returns
AddChannelReturns ==
  /\ checks.add > 0
  /\ UNCHANGED <<storeVars, upVars, monVars, httpVars, fnVars>>
  /\ checks' = [checks EXCEPT !.add = @ - 1]
  /\ UNCHANGED <<isRunning, initialized, pollingTimer, timers, starting, inFlight, hist>>

\* checkAllChannels, outside any checkChannel run, reaches its end
PassOver ==
  /\ inFlight > checks.pass
  /\ UNCHANGED <<storeVars, upVars, monVars, httpVars, fnVars>>
  /\ inFlight' = inFlight - 1
  /\ UNCHANGED <<isRunning, initialized, pollingTimer, timers, starting, checks, hist>>

LifeInit ==
  /\ LifeIdle
  /\ FnIdle
  /\ HttpIdle
  /\ MonitorIdle
  /\ UpsertIdle
  /\ videos = <<>>
  /\ events = EmptyBag
  /\ channels = [c \in Channels |-> [is_active |-> 1, last_checked_at |-> 0]]

LifeNext ==
  \/ StartCall
  \/ StartResume
  \/ Stop
  \/ Tick
  \/ PassChecks
  \/ PassCheckReturns
  \/ AddChannel
  \/ AddChannelReturns
  \/ PassOver

(***************************************************************************)
(* A single cleanupOldVideos call on every store of bookmarked and         *)
(* unbookmarked rows.                                                      *)
(***************************************************************************)
StoredRows ==
  [ channel_id : Channels, title : ScrapedTitles, published_at : VideoIds, type : {"video"},
    is_live : {0}, is_live_content : {0}, is_upcoming : {0}, bookmarked : {0, 1} ]

\* the stores whose rows of one channel have distinct published times
Stores ==
  { st \in UNION {[ids -> StoredRows] : ids \in SUBSET VideoIds} :
      \A a, b \in DOMAIN st :
        (a # b /\ st[a].channel_id = st[b].channel_id) =>
          st[a].published_at # st[b].published_at }

\* one event row for every stored video
EventsOf(st) ==
  SetToBag({ [event_type |-> "new_video", video_id |-> id, channel_id |-> st[id].channel_id,
              created_at |-> 0] : id \in DOMAIN st })

RetentionInit ==
  /\ \E st \in Stores, n \in 1 .. MaxConfig :
       /\ videos = st
       /\ events = EventsOf(st)
       /\ fnArg = [store |-> st, maxPerChannel |-> n]
  /\ channels = [c \in Channels |-> [is_active |-> 1, last_checked_at |-> 0]]
  /\ fnPc = "call"
  /\ fnRet = <<>>
  /\ UpsertIdle
  /\ MonitorIdle
  /\ HttpIdle
  /\ LifeIdle

\* cleanupOldVideos(maxPerChannel)
CleanupCall ==
  /\ fnPc = "call"
  /\ \E tieE \in TieOrders, tieV \in TieOrders :
       LET r == cleanupOldVideos(videos, events, fnArg.maxPerChannel, tieE, tieV)
       IN  /\ videos' = r.videos
           /\ events' = r.events
           /\ fnRet' = Cardinality(DOMAIN videos \ DOMAIN r.videos)
  /\ fnPc' = "returned"
  /\ UNCHANGED <<channels, fnArg>>
  /\ UNCHANGED upVars
  /\ UNCHANGED monVars
  /\ UNCHANGED httpVars
  /\ UNCHANGED lifeVars

(***************************************************************************)
(* A single classifyVideo call on every tuple of signals                   *)
(* (video-classifier.ts).                                                  *)
(***************************************************************************)
SHORTS_MAX_DURATION == 90

\* a plausible slip: the recording rule is tried before the live rule
classifyVideoMut(props, feedHint) ==
  IF props.isUpcoming /\ props.scheduledStartTime # <<>> THEN "scheduled"
  ELSE IF props.isLiveContent THEN "vod"
  ELSE IF props.isLive THEN "live"
  ELSE IF props.duration # <<>> /\ props.duration[1] <= SHORTS_MAX_DURATION THEN "short"
  ELSE IF feedHint = "shorts" THEN "short"
  ELSE "video"

\* classifyVideo; an absent optional field is <<>>, an absent flag is FALSE
classifyVideo(props, feedHint) ==
  IF props.isUpcoming /\ props.scheduledStartTime # <<>> THEN "scheduled"
  ELSE IF props.isLive THEN "live"
  ELSE IF props.isLiveContent THEN "vod"
  ELSE IF props.duration # <<>> /\ props.duration[1] <= SHORTS_MAX_DURATION THEN "short"
  ELSE IF feedHint = "shorts" THEN "short"
  ELSE "video"

\* the durations in seconds a watch page may state, on both sides of the threshold
Durations == {0, 90, 91, 119, 120}

\* YTPlayerResponse
PlayerResponses ==
  [ isLive : BOOLEAN, isLiveContent : BOOLEAN, isUpcoming : BOOLEAN,
    scheduledStartTime : {<<>>, <<1>>}, duration : {<<>>} \cup {<<d>> : d \in Durations} ]

\* feedHint?: 'shorts' | 'lives'
FeedHints == {"none", "shorts", "lives"}

ClassifyInit ==
  /\ fnPc = "call"
  /\ \E props \in PlayerResponses, hint \in FeedHints :
       fnArg = [props |-> props, feedHint |-> hint]
  /\ fnRet = <<>>
  /\ videos = <<>>
  /\ events = EmptyBag
  /\ channels = [c \in Channels |-> [is_active |-> 1, last_checked_at |-> 0]]
  /\ UpsertIdle
  /\ MonitorIdle
  /\ HttpIdle
  /\ LifeIdle

ClassifyCall ==
  /\ fnPc = "call"
  /\ fnRet' = classifyVideo(fnArg.props, fnArg.feedHint)
  /\ fnPc' = "returned"
  /\ UNCHANGED fnArg
  /\ UNCHANGED storeVars
  /\ UNCHANGED upVars
  /\ UNCHANGED monVars
  /\ UNCHANGED httpVars
  /\ UNCHANGED lifeVars

(***************************************************************************)
(* A single deduplicateVideos call on every short list of the records the  *)
(* scraper builds (youtube-scraper.ts).                                    *)
(***************************************************************************)
\* deduplicateVideos: shouldReplace
shouldReplace(video, existing) ==
  \/ video.isLive /\ ~existing.isLive
  \/ video.isLiveContent /\ ~existing.isLiveContent
  \/ video.isUpcoming /\ ~existing.isUpcoming
  \/ video.type = "vod" /\ existing.type = "video"
  \/ video.type = "live" /\ existing.type = "video"
  \/ video.type = "scheduled" /\ existing.type = "video"

\* a Map whose set() adds a second entry for a key it already holds
setExistingMut(seen, i, video) == Append(seen, video)

\* seen.set(video.videoId, video) for a key the Map already holds: the entry
\* keeps its place in the insertion order and takes the new value
setExisting(seen, i, video) == [seen EXCEPT ![i] = video]

\* deduplicateVideos: the Map seen after the first n records, in insertion
\* order, with the history of the pairs <<kept, newcomer>> that were replaced
RECURSIVE dedupLoop(_, _)
dedupLoop(list, n) ==
  IF n = 0 THEN [seen |-> <<>>, replaced |-> {}]
  ELSE LET prev  == dedupLoop(list, n - 1)
           video == list[n]
           at    == {i \in DOMAIN prev.seen : prev.seen[i].videoId = video.videoId}
       IN  IF at = {} THEN [prev EXCEPT !.seen = Append(@, video)]
           ELSE LET i == CHOOSE j \in at : \A k \in at : j <= k
                IN  IF shouldReplace(video, prev.seen[i])
                    THEN [ seen     |-> setExisting(prev.seen, i, video),
                           replaced |-> prev.replaced \cup {<<prev.seen[i], video>>} ]
                    ELSE prev

\* deduplicateVideos: Array.from(seen.values())
deduplicateVideos(list) == dedupLoop(list, Len(list)).seen

MaxListLen == 3

DedupIds == {1, 2}

\* the flags and type of a record after classifyVideosList: the flags of the
\* watch page with the type classifyVideo gives them; the flags and type
\* getChannelVideos set, when the classification is off; no flag and the type
\* of the feed, when the watch page could not be fetched
ItemKinds ==
  { [isLive |-> p.isLive, isLiveContent |-> p.isLiveContent, isUpcoming |-> p.isUpcoming,
     type |-> classifyVideo(p, h)] : p \in PlayerResponses, h \in FeedHints }
  \cup
  { [isLive |-> FALSE, isLiveContent |-> (t = "vod"), isUpcoming |-> FALSE, type |-> t] :
      t \in FeedTypes }
  \cup
  { [isLive |-> FALSE, isLiveContent |-> FALSE, isUpcoming |-> FALSE, type |-> t] :
      t \in FeedTypes }

\* the record at place i of a list; its published time tells the places apart
ItemAt(i, id, k) ==
  [ videoId |-> id, title |-> "t1", publishedAt |-> i, type |-> k.type, isLive |-> k.isLive,
    isLiveContent |-> k.isLiveContent, isUpcoming |-> k.isUpcoming, duration |-> 0 ]

\* the lists of n records; the identifiers are interchangeable, so the first
\* record of a list carries identifier 1
ItemLists(n) ==
  { [i \in 1 .. n |-> ItemAt(i, ids[i], kinds[i])] :
      ids \in {f \in [1 .. n -> DedupIds] : n = 0 \/ f[1] = 1},
      kinds \in [1 .. n -> ItemKinds] }

DedupInit ==
  /\ fnPc = "call"
  /\ \E n \in 0 .. MaxListLen : \E list \in ItemLists(n) : fnArg = [list |-> list]
  /\ fnRet = <<>>
  /\ videos = <<>>
  /\ events = EmptyBag
  /\ channels = [c \in Channels |-> [is_active |-> 1, last_checked_at |-> 0]]
  /\ UpsertIdle
  /\ MonitorIdle
  /\ HttpIdle
  /\ LifeIdle

\* deduplicateVideos on the list, on its own result, and on the list twice over
DedupCall ==
  /\ fnPc = "call"
  /\ LET out == deduplicateVideos(fnArg.list)
     IN  fnRet' = [ out      |-> out,
                    again    |-> deduplicateVideos(out),
                    doubled  |-> deduplicateVideos(fnArg.list \o fnArg.list),
                    replaced |-> dedupLoop(fnArg.list, Len(fnArg.list)).replaced ]
  /\ fnPc' = "returned"
  /\ UNCHANGED fnArg
  /\ UNCHANGED storeVars
  /\ UNCHANGED upVars
  /\ UNCHANGED monVars
  /\ UNCHANGED httpVars
  /\ UNCHANGED lifeVars

(***************************************************************************)
(* The three feeds of a channel, fetched concurrently and merged            *)
(* (rss-parser.ts getAllChannelVideos, youtube-scraper.ts                    *)
(* getChannelVideos), and the filters of checkChannel on the merged list.   *)
(***************************************************************************)
\* FeedType
Feeds == {"lives", "videos", "shorts"}

getTypeFromFeed(feedType) ==
  CASE feedType = "shorts" -> "short"
    [] feedType = "lives"  -> "vod"
    [] OTHER               -> "video"

MaxPerFeed == 2

\* the entries of one feed: a list of distinct identifiers
FeedEntries ==
  {<<>>} \cup {<<id>> : id \in DedupIds}
         \cup {pair \in DedupIds \X DedupIds : pair[1] # pair[2]}

\* items.slice(0, count)
slice(items, count) == SubSeq(items, 1, IF count < Len(items) THEN count ELSE Len(items))

\* the records getChannelVideos pushes for one feed
pushItems(feedType, items) ==
  [i \in DOMAIN items |-> FeedItem(items[i], getTypeFromFeed(feedType), "t1")]

\* the loop over the Map of getAllChannelVideos, in the order of its entries
RECURSIVE processFeeds(_, _, _)
processFeeds(feedResults, maxVideosPerFeed, n) ==
  IF n = 0 THEN <<>>
  ELSE processFeeds(feedResults, maxVideosPerFeed, n - 1)
         \o pushItems(feedResults[n][1], slice(feedResults[n][2], maxVideosPerFeed))

\* getChannelVideos with classifyVideos: false
getChannelVideos(feedResults, maxVideosPerFeed) ==
  deduplicateVideos(processFeeds(feedResults, maxVideosPerFeed, Len(feedResults)))

\* the identifiers the loop of checkChannel upserts
UpsertedIds(list) ==
  {list[i].videoId : i \in {j \in DOMAIN list : Survives(list[j], ShortVideoIds(list))}}

\* a check of a channel that is not live: the feeds and config.maxVideosPerFeed
FeedsInit ==
  /\ fnPc = "fetching"
  /\ \E feeds \in [Feeds -> FeedEntries], m \in 1 .. MaxPerFeed :
       fnArg = [feeds |-> feeds, maxVideosPerFeed |-> m]
  /\ fnRet = [results |-> <<>>, failed |-> {}, videos |-> <<>>, upserted |-> {}]
  /\ videos = <<>>
  /\ events = EmptyBag
  /\ channels = [c \in Channels |-> [is_active |-> 1, last_checked_at |-> 0]]
  /\ UpsertIdle
  /\ MonitorIdle
  /\ HttpIdle
  /\ LifeIdle

Fetched == {fnRet.results[i][1] : i \in DOMAIN fnRet.results}

\* parseRSSFeed of one feed resolves: results.set(feedType, items)
FeedArrives(feedType) ==
  /\ fnPc = "fetching"
  /\ feedType \notin Fetched
  /\ fnRet' = [fnRet EXCEPT !.results = Append(@, <<feedType, fnArg.feeds[feedType]>>)]
  /\ UNCHANGED <<fnPc, fnArg>>
  /\ UNCHANGED storeVars
  /\ UNCHANGED upVars
  /\ UNCHANGED monVars
  /\ UNCHANGED httpVars
  /\ UNCHANGED lifeVars

\* a plausible slip: the failure of one feed empties the feeds fetched before it
FeedFailsMut(feedType) ==
  /\ fnPc = "fetching"
  /\ feedType \notin Fetched
  /\ fnRet' = [fnRet EXCEPT !.results = [i \in 1 .. Len(@) + 1 |->
                                           IF i <= Len(@) THEN <<@[i][1], <<>>>>
                                           ELSE <<feedType, <<>>>>],
                            !.failed = @ \cup {feedType}]
  /\ UNCHANGED <<fnPc, fnArg>>
  /\ UNCHANGED storeVars
  /\ UNCHANGED upVars
  /\ UNCHANGED monVars
  /\ UNCHANGED httpVars
  /\ UNCHANGED lifeVars

\* parseRSSFeed of one feed fails: results.set(feedType, [])
FeedFails(feedType) ==
  /\ fnPc = "fetching"
  /\ feedType \notin Fetched
  /\ fnRet' = [fnRet EXCEPT !.results = Append(@, <<feedType, <<>>>>),
                            !.failed = @ \cup {feedType}]
  /\ UNCHANGED <<fnPc, fnArg>>
  /\ UNCHANGED storeVars
  /\ UNCHANGED upVars
  /\ UNCHANGED monVars
  /\ UNCHANGED httpVars
  /\ UNCHANGED lifeVars

\* Promise.all resolves; getChannelVideos merges the feeds and checkChannel
\* filters the list
FeedsMerged ==
  /\ fnPc = "fetching"
  /\ Fetched = Feeds
  /\ LET list == getChannelVideos(fnRet.results, fnArg.maxVideosPerFeed)
     IN  fnRet' = [fnRet EXCEPT !.videos = list, !.upserted = UpsertedIds(list)]
  /\ fnPc' = "returned"
  /\ UNCHANGED fnArg
  /\ UNCHANGED storeVars
  /\ UNCHANGED upVars
  /\ UNCHANGED monVars
  /\ UNCHANGED httpVars
  /\ UNCHANGED lifeVars

FeedsNext ==
  \/ \E feedType \in Feeds : FeedArrives(feedType)
  \/ \E feedType \in Feeds : FeedFails(feedType)
  \/ FeedsMerged

(***************************************************************************)
(* A single checkLiveStatus call on every small document                   *)
(* (youtube-scraper.ts).  A document is the live-now signal of its player  *)
(* response and the sequence of its "videoId":"..." and "channelId":"..."  *)
(* fields and of its closing braces; the documents of the model are        *)
(* shorter than the 500 characters that bound the third method.            *)
(***************************************************************************)
Tokens ==
  {[k |-> "videoId", video |-> v, channel |-> ""] : v \in VideoIds}
    \cup {[k |-> "channelId", video |-> 0, channel |-> c] : c \in Channels}
    \cup {[k |-> "close", video |-> 0, channel |-> ""]}

MaxDocLen == 4

Documents(n) == [isLive : BOOLEAN, tokens : [1 .. n -> Tokens]]

\* the end of the longest match of [^}]* after position p
StretchEnd(tokens, p) ==
  CHOOSE q \in p .. Len(tokens) :
    /\ \A i \in p + 1 .. q : tokens[i].k # "close"
    /\ q = Len(tokens) \/ tokens[q + 1].k = "close"

\* the field of kind second that the greedy [^}]* leaves to the end of the
\* pattern: the last one of the stretch (0: the pattern does not match at p)
LastIn(tokens, p, second) ==
  LET found == {j \in p + 1 .. StretchEnd(tokens, p) : tokens[j].k = second}
  IN  IF found = {} THEN 0 ELSE CHOOSE j \in found : \A i \in found : i <= j

\* while ((match = pattern.exec(html)) !== null): the item of the first match
\* whose channel is channelId, 0 for none; pattern is first[^}]*second
RECURSIVE execLoop(_, _, _, _, _)
execLoop(tokens, first, second, channelId, from) ==
  LET starts == {p \in from .. Len(tokens) :
                   tokens[p].k = first /\ LastIn(tokens, p, second) # 0}
  IN  IF starts = {} THEN 0
      ELSE LET p == CHOOSE x \in starts : \A y \in starts : x <= y
               j == LastIn(tokens, p, second)
               v == IF first = "videoId" THEN tokens[p].video ELSE tokens[j].video
               c == IF first = "videoId" THEN tokens[j].channel ELSE tokens[p].channel
           IN  IF c = channelId THEN v
               ELSE execLoop(tokens, first, second, channelId, j + 1)

\* "Metodo 3": the item field nearest before the first "channelId":"<channelId>",
\* or else the first one after it
nearestVideoId(tokens, channelId) ==
  LET hits == {p \in DOMAIN tokens : tokens[p].k = "channelId" /\ tokens[p].channel = channelId}
  IN  IF hits = {} THEN 0
      ELSE LET idx    == CHOOSE x \in hits : \A y \in hits : x <= y
               before == {i \in 1 .. idx - 1 : tokens[i].k = "videoId"}
               after  == {i \in idx + 1 .. Len(tokens) : tokens[i].k = "videoId"}
           IN  IF before # {} THEN tokens[CHOOSE i \in before : \A j \in before : j <= i].video
               ELSE IF after # {} THEN tokens[CHOOSE i \in after : \A j \in after : i <= j].video
               ELSE 0

\* correctVideoId of checkLiveStatus (0 for null)
correctVideoId(tokens, channelId) ==
  LET m1 == execLoop(tokens, "videoId", "channelId", channelId, 1)
      m2 == execLoop(tokens, "channelId", "videoId", channelId, 1)
  IN  IF m1 # 0 THEN m1
      ELSE IF m2 # 0 THEN m2
      ELSE nearestVideoId(tokens, channelId)

\* checkLiveStatus: fetched is whether this.client.get returned the document
checkLiveStatus(fetched, doc, channelId, title, now) ==
  IF ~fetched THEN <<>>
  ELSE IF ~doc.isLive THEN <<>>
  ELSE IF correctVideoId(doc.tokens, channelId) = 0 THEN <<>>
  ELSE <<LiveItem(correctVideoId(doc.tokens, channelId), title, now)>>

ProbeInit ==
  /\ videos = <<>>
  /\ events = EmptyBag
  /\ channels = [c \in Channels |-> [is_active |-> 1, last_checked_at |-> 0]]
  /\ UpsertIdle
  /\ MonitorIdle
  /\ HttpIdle
  /\ LifeIdle
  /\ fnPc = "call"
  /\ \E n \in 0 .. MaxDocLen :
       \E doc \in Documents(n), c \in Channels, fetched \in BOOLEAN :
         fnArg = [fetched |-> fetched, doc |-> doc, channelId |-> c]
  /\ fnRet = <<>>

ProbeCall ==
  /\ fnPc = "call"
  /\ fnRet' = checkLiveStatus(fnArg.fetched, fnArg.doc, fnArg.channelId, "t1", 0)
  /\ fnPc' = "returned"
  /\ UNCHANGED fnArg
  /\ UNCHANGED storeVars
  /\ UNCHANGED upVars
  /\ UNCHANGED monVars
  /\ UNCHANGED httpVars
  /\ UNCHANGED lifeVars

(***************************************************************************)
(* Passes over one channel in which the live probe is a fetch of the /live *)
(* document followed by checkLiveStatus' reading of it.  fnArg is what the *)
(* running check met: whether the document was fetched, the document, the  *)
(* feed items whose watch page carries the upcoming signal, and the        *)
(* identifiers stored when the check began; fnRet is the history of the    *)
(* live events emitted for each item by the checks before the running one. *)
(***************************************************************************)
\* the /live documents of channel c: no live-now signal, or the signal and
\* one item paired with c
LivePages(c) ==
  {[isLive |-> FALSE, tokens |-> <<>>]}
    \cup {[isLive |-> TRUE,
           tokens |-> << [k |-> "videoId", video |-> v, channel |-> ""],
                         [k |-> "channelId", video |-> 0, channel |-> c] >>] : v \in VideoIds}

\* the items of a feed list that an upcoming broadcast can be: those of the
\* videos and lives feeds
MayBeUpcoming(list) ==
  {list[i].videoId : i \in {j \in DOMAIN list : list[j].type \in {"video", "vod"}}}

\* history: what the live events of list make of the live status of each item
\* ("none", "started" by a live_started, "ended" by one live_ended after it,
\* "ended_again" by a further one)
RECURSIVE NoteEvents(_, _)
NoteEvents(status, list) ==
  IF list = <<>> THEN status
  ELSE LET e == Head(list)
           s == status[e.videoId]
       IN  NoteEvents([status EXCEPT ![e.videoId] =
                         IF e.event = "live_started" THEN "started"
                         ELSE IF e.event # "live_ended" THEN s
                         ELSE IF s = "started" THEN "ended"
                         ELSE "ended_again"],
                      Tail(list))

\* checkChannel, up to the results of getChannelVideos and checkLiveStatus
CheckChannelProbed ==
  /\ pass.pc = "checking"
  /\ pass.todo # <<>>
  /\ run.pc = "idle"
  /\ Head(pass.todo) \in DOMAIN channels
  /\ LET c == Head(pass.todo)
     IN  /\ channelCache' = channelCache \cup {c}
         /\ \E list \in FeedLists(config.maxVideosPerFeed), fetched \in BOOLEAN :
              \E doc \in IF fetched THEN LivePages(c) ELSE {[isLive |-> FALSE, tokens |-> <<>>]},
                 upcoming \in SUBSET MayBeUpcoming(list) :
                LET live == checkLiveStatus(fetched, doc, c, "t1", Now(cycle))
                IN  /\ run' = [ pc |-> "live", channelId |-> c, cycle |-> cycle,
                                videos |-> list, liveNow |-> live, idx |-> 1,
                                shortVideoIds |-> ShortVideoIds(list), channelInfo |-> TRUE ]
                    /\ fnArg' = [ fetched |-> fetched, doc |-> doc, upcoming |-> upcoming,
                                  stored |-> DOMAIN videos ]
                    /\ sighting' = [v \in VideoIds |-> NextSighting(v, c, list, live)]
                    /\ streak' = [streak EXCEPT ![c] = NextStreak(c, live)]
                    /\ ended' = [ended EXCEPT ![c] =
                                   IF live = <<>> /\ streak[c] # <<>>
                                   THEN streak[c][1].videoId ELSE 0]
         /\ fnRet' = NoteEvents(fnRet, emitted)
         /\ emitted' = <<>>
         /\ pass' = [pass EXCEPT !.checked = Append(@, c)]
  /\ UNCHANGED <<config, cycle, errorListener, deleted, fnPc>>
  /\ UNCHANGED storeVars
  /\ UNCHANGED upVars
  /\ UNCHANGED httpVars
  /\ UNCHANGED lifeVars

LiveInit ==
  /\ videos = <<>>
  /\ events = EmptyBag
  /\ channels = [c \in {"A"} |-> [is_active |-> 1, last_checked_at |-> 0]]
  /\ config = [maxVideosPerFeed |-> 1, maxVideosPerChannel |-> MaxConfig]
  /\ channelCache = {}
  /\ cycle = 0
  /\ pass = PassIdle
  /\ run = RunIdle
  /\ emitted = <<>>
  /\ sighting = [v \in VideoIds |-> <<>>]
  /\ streak = [c \in Channels |-> <<>>]
  /\ ended = [c \in Channels |-> 0]
  /\ errorListener = TRUE
  /\ deleted = [c \in Channels |-> 0]
  /\ UpsertIdle
  /\ HttpIdle
  /\ LifeIdle
  /\ fnPc = "idle"
  /\ fnArg = [fetched |-> FALSE, doc |-> [isLive |-> FALSE, tokens |-> <<>>], upcoming |-> {},
              stored |-> {}]
  /\ fnRet = [v \in VideoIds |-> "none"]

LiveNext ==
  \/ PassBegin
  \/ CheckChannelProbed
  \/ UpsertLiveNow
  \/ ProcessFeedVideo
  \/ CheckChannelEnd
  \/ PassEnd

\* the polling goes on for ever: a pass after pass MaxCycles, which the model no
\* longer counts (its clock stands still)
PassAgain ==
  /\ pass.pc \in {"idle", "aborted"}
  /\ run.pc = "idle"
  /\ cycle = MaxCycles
  /\ \E q \in ActiveOrders :
       pass' = [PassIdle EXCEPT !.pc = "checking", !.todo = q, !.list = q]
  /\ UNCHANGED <<config, channelCache, cycle, run, emitted, sighting, streak, ended,
                 errorListener, deleted>>
  /\ UNCHANGED storeVars
  /\ UNCHANGED upVars
  /\ UNCHANGED httpVars
  /\ UNCHANGED lifeVars
  /\ UNCHANGED fnVars

\* the same passes with the feeds cut to no item: the items are those of the
\* live probe, and the tables stay bounded however many passes are made
PollingInit ==
  /\ videos = <<>>
  /\ events = EmptyBag
  /\ channels = [c \in {"A"} |-> [is_active |-> 1, last_checked_at |-> 0]]
  /\ config = [maxVideosPerFeed |-> 0, maxVideosPerChannel |-> MaxConfig]
  /\ channelCache = {}
  /\ cycle = 0
  /\ pass = PassIdle
  /\ run = RunIdle
  /\ emitted = <<>>
  /\ sighting = [v \in VideoIds |-> <<>>]
  /\ streak = [c \in Channels |-> <<>>]
  /\ ended = [c \in Channels |-> 0]
  /\ errorListener = TRUE
  /\ deleted = [c \in Channels |-> 0]
  /\ UpsertIdle
  /\ HttpIdle
  /\ LifeIdle
  /\ fnPc = "idle"
  /\ fnArg = [fetched |-> FALSE, doc |-> [isLive |-> FALSE, tokens |-> <<>>], upcoming |-> {},
              stored |-> {}]
  /\ fnRet = [v \in VideoIds |-> "none"]

PollingNext ==
  \/ PassBegin
  \/ PassAgain
  \/ CheckChannelProbed
  \/ UpsertLiveNow
  \/ CheckChannelEnd
  \/ PassEnd

(***************************************************************************)
(* The refinement of one stub of getChannelVideos with classifyVideos on   *)
(* (video-classifier.ts, youtube-scraper.ts): the watch page is fetched or *)
(* the fetch fails, and the stub takes the type and the signals found.     *)
(***************************************************************************)
\* feedHints.get(video.videoId): undefined ("none") for a stub of the videos feed
feedHintOf(feedType) ==
  IF feedType = "shorts" THEN "shorts" ELSE IF feedType = "lives" THEN "lives" ELSE "none"

\* props: {} of the catch of getVideoClassification
NoProps ==
  [ isLive |-> FALSE, isLiveContent |-> FALSE, isUpcoming |-> FALSE,
    scheduledStartTime |-> <<>>, duration |-> <<>> ]

\* getVideoClassification: fetched is whether client.get returned the watch page
getVideoClassification(fetched, props, feedHint) ==
  IF fetched
  THEN [type |-> classifyVideo(props, feedHint), props |-> props]
  ELSE [type  |-> IF feedHint = "shorts" THEN "short"
                  ELSE IF feedHint = "lives" THEN "vod" ELSE "video",
        props |-> NoProps]

\* classifyVideosList: what it makes of one stub of feed feedType
classifyVideosList(feedType, fetched, props) ==
  LET r == getVideoClassification(fetched, props, feedHintOf(feedType))
  IN  [ type               |-> r.type,
        duration           |-> r.props.duration,
        scheduledStartTime |-> r.props.scheduledStartTime,
        isLive             |-> r.props.isLive,
        isLiveContent      |-> r.props.isLiveContent,
        isUpcoming         |-> r.props.isUpcoming ]

RefineInit ==
  /\ fnPc = "call"
  /\ \E feedType \in Feeds, fetched \in BOOLEAN, props \in PlayerResponses :
       fnArg = [feedType |-> feedType, fetched |-> fetched, props |-> props]
  /\ fnRet = <<>>
  /\ videos = <<>>
  /\ events = EmptyBag
  /\ channels = [c \in Channels |-> [is_active |-> 1, last_checked_at |-> 0]]
  /\ UpsertIdle
  /\ MonitorIdle
  /\ HttpIdle
  /\ LifeIdle

RefineCall ==
  /\ fnPc = "call"
  /\ fnRet' = classifyVideosList(fnArg.feedType, fnArg.fetched, fnArg.props)
  /\ fnPc' = "returned"
  /\ UNCHANGED fnArg
  /\ UNCHANGED storeVars
  /\ UNCHANGED upVars
  /\ UNCHANGED monVars
  /\ UNCHANGED httpVars
  /\ UNCHANGED lifeVars

(***************************************************************************)
(* Passes with removeChannel and addChannel called on the monitor for one  *)
(* channel (services/monitor.ts).  fnRet notes for each channel whether    *)
(* removeChannel was its last call and the pass in flight when it          *)
(* returned (0 for none); fnArg notes what the last addChannel of the      *)
(* channel returned since.                                                 *)
(***************************************************************************)
\* upsertChannel: INSERT ... ON CONFLICT(channel_id) DO UPDATE SET title,
\* description, thumbnail_url, updated_at; is_active is DEFAULT 1 in the INSERT
\* and is not in the SET list
upsertChannel(chans, channelId) ==
  [c \in DOMAIN chans \cup {channelId} |->
     IF c \in DOMAIN chans THEN chans[c] ELSE [is_active |-> 1, last_checked_at |-> 0]]

\* deactivateChannel: UPDATE channels SET is_active = 0 WHERE channel_id = $1
deactivateChannel(chans, channelId) ==
  [c \in DOMAIN chans |-> IF c = channelId THEN [chans[c] EXCEPT !.is_active = 0] ELSE chans[c]]

RosterInit ==
  /\ videos = <<>>
  /\ events = EmptyBag
  /\ \E known \in SUBSET {"A"} :
       channels = [c \in known |-> [is_active |-> 1, last_checked_at |-> 0]]
  /\ config = [maxVideosPerFeed |-> 0, maxVideosPerChannel |-> MaxConfig]
  /\ channelCache = {}
  /\ cycle = 0
  /\ pass = PassIdle
  /\ run = RunIdle
  /\ emitted = <<>>
  /\ sighting = [v \in VideoIds |-> <<>>]
  /\ streak = [c \in Channels |-> <<>>]
  /\ ended = [c \in Channels |-> 0]
  /\ errorListener = TRUE
  /\ deleted = [c \in Channels |-> 0]
  /\ UpsertIdle
  /\ HttpIdle
  /\ LifeIdle
  /\ fnPc = "idle"
  /\ fnArg = [c \in Channels |-> "none"]
  /\ fnRet = [c \in Channels |-> [removed |-> FALSE, during |-> 0]]

\* removeChannel(c), called between two steps of the monitor
RemoveChannel(c) ==
  /\ channels' = deactivateChannel(channels, c)
  /\ channelCache' = channelCache \ {c}
  /\ fnRet' = [fnRet EXCEPT ![c] = [removed |-> TRUE,
                                    during |-> IF pass.pc = "checking" THEN cycle ELSE 0]]
  /\ fnArg' = [fnArg EXCEPT ![c] = "none"]
  /\ UNCHANGED <<videos, events, config, cycle, pass, run, emitted, sighting, streak, ended,
                 errorListener, deleted, fnPc>>
  /\ UNCHANGED upVars
  /\ UNCHANGED httpVars
  /\ UNCHANGED lifeVars

\* addChannel(c), called while no checkChannel is in progress: getChannelInfo
\* finds the channel or not, upsertChannel, channelCache.set, and the
\* checkChannel of the channel (its feeds cut to maxVideosPerFeed = 0 items)
AddChannelCall(c) ==
  /\ run.pc = "idle"
  /\ fnArg[c] = "none"
  /\ \E found \in BOOLEAN, live \in ProbeResults(Now(cycle)) :
       IF ~found
       THEN /\ fnArg' = [fnArg EXCEPT ![c] = "null"]
            /\ UNCHANGED <<storeVars, channelCache, run, emitted, fnRet>>
       ELSE LET up == IF live # <<>>
                      THEN upsertVideo(videos, events, live[1], c, Now(cycle))
                      ELSE [videos |-> videos, events |-> events, event |-> NullEvent]
                r  == cleanupEndedLives(up.videos, up.events, c, live)
            IN  /\ videos' = r.videos
                /\ events' = r.events
                /\ channels' = [upsertChannel(channels, c) EXCEPT
                                  ![c].last_checked_at = Now(cycle)]
                /\ channelCache' = channelCache \cup {c}
                /\ run' = [RunIdle EXCEPT !.channelId = c, !.cycle = cycle]
                /\ emitted' = IF up.event # NullEvent
                              THEN <<[event |-> up.event, videoId |-> live[1].videoId]>>
                              ELSE <<>>
                /\ fnArg' = [fnArg EXCEPT ![c] = "info"]
                /\ fnRet' = [fnRet EXCEPT ![c] = [removed |-> FALSE, during |-> 0]]
  /\ UNCHANGED <<config, cycle, pass, sighting, streak, ended, errorListener, deleted, fnPc>>
  /\ UNCHANGED upVars
  /\ UNCHANGED httpVars
  /\ UNCHANGED lifeVars

RosterNext ==
  \/ PassBegin
  \/ CheckChannelBegin
  \/ UpsertLiveNow
  \/ CheckChannelEnd
  \/ PassEnd
  \/ RemoveChannel("A")
  \/ AddChannelCall("A")

(***************************************************************************)
(* Passes over one channel whose fetches may fail: each of the three feed  *)
(* fetches and the fetch of the /live page (rss-parser.ts parseRSSFeed and *)
(* getAllChannelVideos, youtube-scraper.ts checkLiveStatus).  fnArg notes  *)
(* for the running check the feeds whose fetch failed, whether the /live   *)
(* page was fetched and what the videos feed held.                         *)
(***************************************************************************)
\* the orders in which the three fetches of getAllChannelVideos may complete
FeedOrders == {q \in [1 .. 3 -> Feeds] : \A i, j \in 1 .. 3 : i # j => q[i] # q[j]}

\* the entries of a feed: no item or one
OutageEntries == {<<>>, <<1>>}

\* a plausible slip: the error parseRSSFeed rethrows for the videos feed is
\* not caught
feedOutcomeMut(feedType, items, down) ==
  IF feedType \notin down THEN [threw |-> FALSE, items |-> items]
  ELSE IF feedType # "videos" THEN [threw |-> FALSE, items |-> <<>>]
  ELSE [threw |-> TRUE, items |-> <<>>]

\* what getAllChannelVideos gets from one feed: the items; [] from parseRSSFeed
\* when the fetch of the shorts or lives feed fails; and [] from its own catch
\* when parseRSSFeed rethrows the failure of the videos feed
feedOutcome(feedType, items, down) ==
  IF feedType \notin down THEN [threw |-> FALSE, items |-> items]
  ELSE IF feedType # "videos" THEN [threw |-> FALSE, items |-> <<>>]
  ELSE [threw |-> FALSE, items |-> <<>>]

\* checkChannel, up to the result of getChannelVideos, with the outcome of the
\* fetch of every feed
CheckChannelFeeds ==
  /\ pass.pc = "checking"
  /\ pass.todo # <<>>
  /\ run.pc = "idle"
  /\ Head(pass.todo) \in DOMAIN channels
  /\ LET c == Head(pass.todo)
     IN  \E feeds \in [Feeds -> OutageEntries], down \in SUBSET Feeds, order \in FeedOrders :
           LET out     == [f \in Feeds |-> feedOutcome(f, feeds[f], down)]
               results == [i \in 1 .. 3 |-> <<order[i], out[order[i]].items>>]
               list    == getChannelVideos(results, config.maxVideosPerFeed)
           IN  /\ fnArg' = [down |-> down, fetched |-> TRUE, videosFeed |-> feeds["videos"]]
               /\ IF \E f \in Feeds : out[f].threw
                  THEN /\ run' = [RunIdle EXCEPT !.channelId = c, !.cycle = cycle]
                       /\ pass' = [pass EXCEPT !.todo = Tail(@), !.checked = Append(@, c),
                                               !.failed = Append(@, c),
                                               !.errors = Append(@, c)]
                       /\ UNCHANGED channelCache
                  ELSE /\ run' = [ pc |-> "probe", channelId |-> c, cycle |-> cycle,
                                   videos |-> list, liveNow |-> <<>>, idx |-> 1,
                                   shortVideoIds |-> ShortVideoIds(list),
                                   channelInfo |-> TRUE ]
                       /\ pass' = [pass EXCEPT !.checked = Append(@, c)]
                       /\ channelCache' = channelCache \cup {c}
  /\ emitted' = <<>>
  /\ UNCHANGED <<config, cycle, sighting, streak, ended, errorListener, deleted, fnPc, fnRet>>
  /\ UNCHANGED storeVars
  /\ UNCHANGED upVars
  /\ UNCHANGED httpVars
  /\ UNCHANGED lifeVars

\* checkChannel: checkLiveStatus, whose fetch of the /live page fails or not
CheckChannelProbe ==
  /\ run.pc = "probe"
  /\ LET c == run.channelId
     IN  \E fetched \in BOOLEAN :
           \E doc \in IF fetched THEN LivePages(c) ELSE {[isLive |-> FALSE, tokens |-> <<>>]} :
             LET live == checkLiveStatus(fetched, doc, c, "t1", Now(cycle))
             IN  /\ fnArg' = [fnArg EXCEPT !.fetched = fetched]
                 /\ run' = [run EXCEPT !.pc = "live", !.liveNow = live]
                 /\ sighting' = [v \in VideoIds |-> NextSighting(v, c, run.videos, live)]
                 /\ streak' = [streak EXCEPT ![c] = NextStreak(c, live)]
                 /\ ended' = [ended EXCEPT ![c] =
                                IF live = <<>> /\ streak[c] # <<>>
                                THEN streak[c][1].videoId ELSE 0]
  /\ UNCHANGED <<config, channelCache, cycle, pass, emitted, errorListener, deleted, fnPc, fnRet>>
  /\ UNCHANGED storeVars
  /\ UNCHANGED upVars
  /\ UNCHANGED httpVars
  /\ UNCHANGED lifeVars

OutageInit ==
  /\ videos = <<>>
  /\ events = EmptyBag
  /\ channels = [c \in {"A"} |-> [is_active |-> 1, last_checked_at |-> 0]]
  /\ config = [maxVideosPerFeed |-> 1, maxVideosPerChannel |-> MaxConfig]
  /\ channelCache = {}
  /\ cycle = 0
  /\ pass = PassIdle
  /\ run = RunIdle
  /\ emitted = <<>>
  /\ sighting = [v \in VideoIds |-> <<>>]
  /\ streak = [c \in Channels |-> <<>>]
  /\ ended = [c \in Channels |-> 0]
  /\ errorListener = TRUE
  /\ deleted = [c \in Channels |-> 0]
  /\ UpsertIdle
  /\ HttpIdle
  /\ LifeIdle
  /\ fnPc = "idle"
  /\ fnArg = [down |-> {}, fetched |-> TRUE, videosFeed |-> <<>>]
  /\ fnRet = <<>>

OutageNext ==
  \/ PassBegin
  \/ CheckChannelFeeds
  \/ CheckChannelProbe
  \/ UpsertLiveNow
  \/ ProcessFeedVideo
  \/ CheckChannelFails
  \/ CheckChannelEnd
  \/ PassEnd

(***************************************************************************)
(* The end of a pass, statement by statement (services/monitor.ts          *)
(* checkAllChannels): runCleanup, which may reject, then the emit of       *)
(* cycle_complete.  fnRet is the history of the cycle_complete events      *)
(* emitted: the pass and the channels count of each.                       *)
(***************************************************************************)
\* checkAllChannels: await db.runCleanup(...) resolves
RunCleanup ==
  /\ pass.pc = "checking"
  /\ pass.todo = <<>>
  /\ run.pc = "idle"
  /\ \E tieE \in TieOrders, tieV \in TieOrders :
       LET r == runCleanup(videos, events, config.maxVideosPerChannel, MaxEventDays,
                           Now(cycle), tieE, tieV)
       IN  /\ videos' = r.videos
           /\ events' = r.events
  /\ pass' = [pass EXCEPT !.pc = "cleaned"]
  /\ UNCHANGED <<config, channelCache, cycle, run, emitted, sighting, streak, ended, channels,
                 errorListener, deleted>>
  /\ UNCHANGED upVars
  /\ UNCHANGED httpVars
  /\ UNCHANGED lifeVars
  /\ UNCHANGED fnVars

\* a plausible slip: the failure of the cleanup is swallowed and the summary
\* is emitted all the same
CleanupFailsMut ==
  /\ pass.pc = "checking"
  /\ pass.todo = <<>>
  /\ run.pc = "idle"
  /\ pass' = [pass EXCEPT !.pc = "idle"]
  /\ fnRet' = Append(fnRet, [cycle |-> cycle, channels |-> Len(pass.list)])
  /\ UNCHANGED <<config, channelCache, cycle, run, emitted, sighting, streak, ended,
                 errorListener, deleted>>
  /\ UNCHANGED storeVars
  /\ UNCHANGED upVars
  /\ UNCHANGED httpVars
  /\ UNCHANGED lifeVars
  /\ UNCHANGED <<fnPc, fnArg>>

\* a query of runCleanup (or getRecentEvents before it) rejects after done of
\* the three statements of runCleanup took effect: checkAllChannels rejects
CleanupFails ==
  /\ pass.pc = "checking"
  /\ pass.todo = <<>>
  /\ run.pc = "idle"
  /\ \E done \in 0 .. 2, tieE \in TieOrders, tieV \in TieOrders :
       LET a == cleanupOldVideos(videos, events, config.maxVideosPerChannel, tieE, tieV)
       IN  /\ videos' = IF done = 0 THEN videos ELSE a.videos
           /\ events' = IF done = 0 THEN events
                        ELSE IF done = 1 THEN a.events
                        ELSE cleanupOldEvents(a.events, MaxEventDays, Now(cycle))
  /\ pass' = [pass EXCEPT !.pc = "aborted"]
  /\ UNCHANGED <<config, channelCache, cycle, run, emitted, sighting, streak, ended, channels,
                 errorListener, deleted>>
  /\ UNCHANGED upVars
  /\ UNCHANGED httpVars
  /\ UNCHANGED lifeVars
  /\ UNCHANGED fnVars

\* checkAllChannels: this.emit('cycle_complete', {channels: channels.length, ...})
CycleComplete ==
  /\ pass.pc = "cleaned"
  /\ pass' = [pass EXCEPT !.pc = "idle"]
  /\ fnRet' = Append(fnRet, [cycle |-> cycle, channels |-> Len(pass.list)])
  /\ UNCHANGED <<config, channelCache, cycle, run, emitted, sighting, streak, ended,
                 errorListener, deleted>>
  /\ UNCHANGED storeVars
  /\ UNCHANGED upVars
  /\ UNCHANGED httpVars
  /\ UNCHANGED lifeVars
  /\ UNCHANGED <<fnPc, fnArg>>

\* a monitor with no channel or one, whose feeds are cut to no item
CycleInit ==
  /\ videos = <<>>
  /\ events = EmptyBag
  /\ \E known \in SUBSET {"A"} :
       channels = [c \in known |-> [is_active |-> 1, last_checked_at |-> 0]]
  /\ config = [maxVideosPerFeed |-> 0, maxVideosPerChannel |-> MaxConfig]
  /\ channelCache = {}
  /\ cycle = 0
  /\ pass = PassIdle
  /\ run = RunIdle
  /\ emitted = <<>>
  /\ sighting = [v \in VideoIds |-> <<>>]
  /\ streak = [c \in Channels |-> <<>>]
  /\ ended = [c \in Channels |-> 0]
  /\ errorListener \in BOOLEAN
  /\ deleted = [c \in Channels |-> 0]
  /\ UpsertIdle
  /\ HttpIdle
  /\ LifeIdle
  /\ FnIdle

CycleNext ==
  \/ PassBegin
  \/ CheckChannelBegin
  \/ UpsertLiveNow
  \/ CheckChannelFails
  \/ CheckChannelEnd
  \/ RunCleanup
  \/ CleanupFails
  \/ CycleComplete

(***************************************************************************)
(* A single cleanupEndedLives call on every store of live and plain rows   *)
(* of both channels, for every channel and every result of the probe.      *)
(* fnArg keeps the store, the channel and the probe result of the call.    *)
(***************************************************************************)
LiveRows ==
  [ channel_id : Channels, title : ScrapedTitles, published_at : {1}, type : {"live", "video"},
    is_live : {0, 1}, is_live_content : {0}, is_upcoming : {0}, bookmarked : {0} ]

RetireInit ==
  /\ \E ids \in SUBSET VideoIds :
       \E st \in [ids -> LiveRows] :
         /\ videos = st
         /\ events = EventsOf(st)
         /\ \E c \in Channels, p \in ProbeResults(Now(1)) :
              fnArg = [store |-> st, channelId |-> c, currentLive |-> p]
  /\ channels = [c \in Channels |-> [is_active |-> 1, last_checked_at |-> 0]]
  /\ fnPc = "call"
  /\ fnRet = <<>>
  /\ UpsertIdle
  /\ MonitorIdle
  /\ HttpIdle
  /\ LifeIdle

\* cleanupEndedLives(channelId, currentLive)
RetireCall ==
  /\ fnPc = "call"
  /\ LET r == cleanupEndedLives(videos, events, fnArg.channelId, fnArg.currentLive)
     IN  /\ videos' = r.videos
         /\ events' = r.events
         /\ fnRet' = DOMAIN videos \ DOMAIN r.videos
  /\ fnPc' = "returned"
  /\ UNCHANGED <<channels, fnArg>>
  /\ UNCHANGED upVars
  /\ UNCHANGED monVars
  /\ UNCHANGED httpVars
  /\ UNCHANGED lifeVars

(***************************************************************************)
(* A single upsertVideo call on every stored row and every observation.    *)
(***************************************************************************)
Rows ==
  [ channel_id : Channels, title : Titles, published_at : {1}, type : VideoTypes,
    is_live : {0, 1}, is_live_content : {0}, is_upcoming : {0, 1}, bookmarked : {0, 1} ]

Observations ==
  [ videoId : {1}, title : Titles, publishedAt : {2}, type : VideoTypes,
    isLive : BOOLEAN, isLiveContent : {FALSE}, isUpcoming : BOOLEAN, duration : {0} ]

UpsertInit ==
  /\ \E st \in {<<>>} \cup {[id \in {1} |-> r] : r \in Rows} : videos = st
  /\ events = EmptyBag
  /\ channels = [c \in Channels |-> [is_active |-> 1, last_checked_at |-> 0]]
  /\ MonitorIdle
  /\ HttpIdle
  /\ LifeIdle
  /\ FnIdle
  /\ upPc = "call"
  /\ \E v \in Observations, c \in Channels : upArg = [video |-> v, channelId |-> c]
  /\ upPre = getVideo(videos, 1)
  /\ upRet = NullEvent

UpsertCall ==
  /\ upPc = "call"
  /\ LET r == upsertVideo(videos, events, upArg.video, upArg.channelId, 0)
     IN  /\ videos' = r.videos
         /\ events' = r.events
         /\ upRet' = r.event
  /\ upPc' = "returned"
  /\ UNCHANGED <<channels, upArg, upPre>>
  /\ UNCHANGED monVars
  /\ UNCHANGED httpVars
  /\ UNCHANGED lifeVars
  /\ UNCHANGED fnVars

(***************************************************************************)
(* Two runs of checkChannel on one channel that observe the same feed item *)
(* (db/database.ts, services/monitor.ts).  upsertVideo is three statements *)
(* on the pool, each awaited and none in a transaction: the SELECT of      *)
(* getVideo, the INSERT ... ON CONFLICT, and the INSERT of addEvent.  The  *)
(* runs overlap (addChannel during a pass, two passes) or follow one       *)
(* another.  Here upPc, upPre and upRet hold one value per run.            *)
(***************************************************************************)
Writers == {1, 2}

\* the rows the item may have before the runs
WrittenRows ==
  {r \in Rows : r.channel_id = "A" /\ r.bookmarked = 0 /\ r.is_upcoming = 0}

WritersInit ==
  /\ \E st \in {<<>>} \cup {[id \in {1} |-> r] : r \in WrittenRows} :
       /\ videos = st
       /\ \E v \in Observations :
            upArg = [video |-> v, channelId |-> "A", stored |-> st # <<>>]
  /\ events = EmptyBag
  /\ channels = [c \in Channels |-> [is_active |-> 1, last_checked_at |-> 0]]
  /\ MonitorIdle
  /\ HttpIdle
  /\ LifeIdle
  /\ FnIdle
  /\ upPc = [w \in Writers |-> "call"]
  /\ upPre = [w \in Writers |-> [existing |-> <<>>, failed |-> {}]]
  /\ upRet = [w \in Writers |-> NullEvent]

\* upsertVideo: const existing = await this.getVideo(video.videoId)
GetExisting(w) ==
  /\ upPc[w] = "call"
  /\ upPre' = [upPre EXCEPT ![w] = [existing |-> getVideo(videos, upArg.video.videoId),
                                    failed   |-> {x \in Writers : upPc[x] = "failed"}]]
  /\ upPc' = [upPc EXCEPT ![w] = "read"]
  /\ UNCHANGED <<upArg, upRet>>
  /\ UNCHANGED storeVars
  /\ UNCHANGED monVars
  /\ UNCHANGED httpVars
  /\ UNCHANGED lifeVars
  /\ UNCHANGED fnVars

\* upsertVideo: the INSERT ... ON CONFLICT(video_id) DO UPDATE, then the event
\* is determined from the row read before
WriteRow(w) ==
  /\ upPc[w] = "read"
  /\ LET id  == upArg.video.videoId
         row == IF id \in DOMAIN videos THEN UpdatedRow(videos[id], upArg.video)
                ELSE InsertedRow(upArg.video, upArg.channelId)
     IN  videos' = [x \in DOMAIN videos \cup {id} |-> IF x = id THEN row ELSE videos[x]]
  /\ upRet' = [upRet EXCEPT ![w] = upsertEvent(upPre[w].existing, upArg.video)]
  /\ upPc' = [upPc EXCEPT ![w] = "written"]
  /\ UNCHANGED <<events, channels, upArg, upPre>>
  /\ UNCHANGED monVars
  /\ UNCHANGED httpVars
  /\ UNCHANGED lifeVars
  /\ UNCHANGED fnVars

\* upsertVideo: await this.addEvent(...) and the return; checkChannel: this.emit
RecordEvent(w) ==
  /\ upPc[w] = "written"
  /\ IF upRet[w] # NullEvent
     THEN /\ events' = addEvent(events, upRet[w], upArg.video.videoId, upArg.channelId, 0)
          /\ emitted' = Append(emitted, [event |-> upRet[w], videoId |-> upArg.video.videoId])
     ELSE UNCHANGED <<events, emitted>>
  /\ upPc' = [upPc EXCEPT ![w] = "done"]
  /\ UNCHANGED <<videos, channels, upArg, upPre, upRet>>
  /\ UNCHANGED <<config, channelCache, cycle, pass, run, sighting, streak, ended,
                 errorListener, deleted>>
  /\ UNCHANGED httpVars
  /\ UNCHANGED lifeVars
  /\ UNCHANGED fnVars

\* the query of addEvent rejects (the store is unreachable): upsertVideo
\* rejects and the catch of checkChannel ends the run
RecordFails(w) ==
  /\ upPc[w] = "written"
  /\ upRet[w] # NullEvent
  /\ upPc' = [upPc EXCEPT ![w] = "failed"]
  /\ UNCHANGED <<upArg, upPre, upRet>>
  /\ UNCHANGED storeVars
  /\ UNCHANGED monVars
  /\ UNCHANGED httpVars
  /\ UNCHANGED lifeVars
  /\ UNCHANGED fnVars

WritersNext ==
  \/ \E w \in Writers : GetExisting(w)
  \/ \E w \in Writers : WriteRow(w)
  \/ \E w \in Writers : RecordEvent(w)
  \/ \E w \in Writers : RecordFails(w)

vars == <<storeVars, upVars, monVars, httpVars, lifeVars, fnVars>>

SpecUpsert == UpsertInit /\ [][UpsertCall]_vars

SpecMonitor == MonitorInit /\ [][MonitorNext]_vars

SpecPass == PassInit /\ [][PassNext]_vars

SpecRetention == RetentionInit /\ [][CleanupCall]_vars

SpecClassify == ClassifyInit /\ [][ClassifyCall]_vars

SpecDedup == DedupInit /\ [][DedupCall]_vars

SpecFeeds == FeedsInit /\ [][FeedsNext]_vars

SpecHttp == HttpInit /\ [][HttpNext]_vars

SpecRetry == RetryInit /\ [][RetryNext]_vars

SpecPace == PaceInit /\ [][PaceNext]_vars

SpecStart == LifeInit /\ [][LifeNext]_vars

SpecProbe == ProbeInit /\ [][ProbeCall]_vars

SpecWriters == WritersInit /\ [][WritersNext]_vars

SpecRefine == RefineInit /\ [][RefineCall]_vars

SpecCycle == CycleInit /\ [][CycleNext]_vars

SpecRetire == RetireInit /\ [][RetireCall]_vars

SpecGate == GateInit /\ [][GateNext]_vars

SpecRoster == RosterInit /\ [][RosterNext]_vars

SpecOutage == OutageInit /\ [][OutageNext]_vars

SpecAttempts == HttpInit /\ [][AttemptsNext]_vars /\ WF_vars(AttemptsNext)

SpecLive == LiveInit /\ [][LiveNext]_vars

\* the polling timer launches a pass every interval and every await of a check
\* resolves: no step of a pass is put off for ever
SpecLiveFair == PollingInit /\ [][PollingNext]_vars /\ WF_vars(PollingNext)

(***************************************************************************)
(* The claims.                                                             *)
(***************************************************************************)
\* a pass has completed and no other has begun
PassCompleted == cycle > 0 /\ pass.pc = "idle"

\* the events the current (or last) checkChannel emitted for video v
EmittedFor(v) == {i \in DOMAIN emitted : emitted[i].videoId = v}

\* C1: after a completed pass every channel has at most one stored item with
\* is_live = 1, whatever was stored before and whatever the feeds and the
\* live probe returned
C1_AtMostOneLivePerChannel ==
  PassCompleted => \A c \in Channels : Cardinality(getLiveVideos(videos, c)) <= 1

\* C3: one checkChannel run emits at most one lifecycle event for each item
\* identifier, also when the probe's identifier is among the feed items
C3_OneEventPerItemPerRun ==
  \A v \in VideoIds : Cardinality(EmittedFor(v)) <= 1

\* C4: an item that stays an unchanged plain item of a channel's feed gets
\* new_video exactly once, in the cycle of its first sighting, and no event in
\* any later cycle, for every maxVideosPerFeed and maxVideosPerChannel
C4_NewVideoOnce ==
  \A v \in VideoIds :
    (sighting[v] # <<>> /\ run.channelId = sighting[v][1].chan) =>
      /\ run.cycle > sighting[v][1].first => EmittedFor(v) = {}
      /\ (run.cycle = sighting[v][1].first /\ sighting[v][1].absent) =>
           /\ Cardinality(EmittedFor(v)) <= 1
           /\ \A i \in EmittedFor(v) : emitted[i].event = "new_video"
           /\ run.pc = "idle" => Cardinality(EmittedFor(v)) = 1

\* C5: while the probe reports the same item in consecutive cycles of a channel,
\* live_started is emitted for it once; after the first check in which the
\* probe finds nothing, the item is no longer stored
C5_LiveStartedOnceThenDeleted ==
  \A c \in Channels :
    /\ streak[c] # <<>> => streak[c][1].started <= 1
    /\ (ended[c] # 0 /\ run.pc = "idle" /\ run.channelId = c) => ended[c] \notin DOMAIN videos

\* the event of the transition table for a stored state and an observation
TableEvent(pre, obs) ==
  CASE pre = <<>> /\ obs.isLive -> "live_started"
    [] pre = <<>> /\ ~obs.isLive /\ obs.isUpcoming -> "scheduled_live"
    [] pre = <<>> /\ ~obs.isLive /\ ~obs.isUpcoming -> "new_video"
    [] pre # <<>> /\ pre[1].is_live = 0 /\ obs.isLive -> "live_started"
    [] pre # <<>> /\ pre[1].is_live = 1 /\ ~obs.isLive -> "live_ended"
    [] pre # <<>> /\ (pre[1].is_live = 1) = obs.isLive
         /\ (pre[1].type # obs.type \/ pre[1].title # obs.title) -> "video_updated"
    [] OTHER -> NullEvent

\* C2: for every stored state of an item (absent, or present with any is_live,
\* type and title) and every observation, upsertVideo returns the event of the
\* transition table, and the events table holds one row of that event for the
\* item when the event is non-null and no row otherwise.
C2_UpsertTable ==
  upPc = "returned" =>
    /\ upRet = TableEvent(upPre, upArg.video)
    /\ BagCardinality(events) = IF upRet = NullEvent THEN 0 ELSE 1
    /\ \A e \in DOMAIN events :
         e.event_type = upRet /\ e.video_id = upArg.video.videoId

\* C2 case: a stored live item observed live again under another title
C2_Witness ==
  /\ upPc = "returned"
  /\ upPre # <<>>
  /\ upPre[1].is_live = 1
  /\ upArg.video.isLive
  /\ upPre[1].title # upArg.video.title
  /\ upRet = "video_updated"
  /\ BagCardinality(events) = 1

\* C6: a get call that has received nothing but 429 responses has not failed,
\* however many they are: it sleeps and sends again until a response other
\* than 429 arrives (lastError is unset exactly when every response received
\* so far was a 429).
C6_RateLimitNotCounted ==
  \A c \in Calls :
    calls[c].lastError = "none" => calls[c].pc # "failed"

\* C7: once a send of a get call has received 404 or 403, the call has failed
\* with that error: it is not sending again and not sleeping, at every attempt
\* index and for every maxRetries.
C7_NonRetryableFailsAtOnce ==
  \A c \in Calls :
    calls[c].lastResp \in {"404", "403"} =>
      /\ calls[c].pc = "failed"
      /\ calls[c].error = calls[c].lastResp
      /\ calls[c].sends = calls[c].attempt + 1

\* C7 case: a 403 received by the send of the last attempt, and a 404 by a first send
C7_Witness ==
  /\ options.maxRetries = MaxRetries
  /\ \E c \in Calls :
       /\ calls[c].lastResp = "403"
       /\ calls[c].attempt = MaxRetries - 1
       /\ calls[c].pc = "failed"
  /\ \E c \in Calls :
       /\ calls[c].lastResp = "404"
       /\ calls[c].sends = 1

\* C8: under every interleaving of get calls, the calls admitted by the
\* semaphore and not yet at release are at most maxConcurrent, sleeping calls
\* included.
C8_AdmittedAtMostMaxConcurrent ==
  Cardinality({c \in Calls : Admitted(c)}) <= options.maxConcurrent

\* C8 case: maxConcurrent calls sleep with their permits while another call
\* waits, after a call has failed
C8_Witness ==
  /\ Cardinality({c \in Calls : calls[c].pc \in {"sleep429", "backoff"}}) = options.maxConcurrent
  /\ \E c \in Calls : calls[c].pc = "waiting"
  /\ \E c \in Calls : calls[c].pc = "failed"

\* C9: when start has been called at least once, stop never, and every start
\* call has resolved, exactly one interval timer is armed and exactly one
\* immediate pass has been launched.
C9_StartIdempotent ==
  (hist.starts >= 1 /\ hist.stops = 0 /\ starting = 0) =>
    (Cardinality(timers) = 1 /\ hist.immediate = 1)

\* C10: no pass is launched while the last call made on the monitor is a stop
\* that has returned.
C10_NoPassAfterStop ==
  ~hist.late

\* C11: in one pass the channels are checked once each in the order of the
\* list: the channels checked so far followed by those still to check are
\* the list. A pass that has ended has checked the whole list, and every
\* check that failed on a store operation has had its error event delivered
\* with its channel.
C11_PassChecksAllInOrder ==
  /\ pass.pc = "checking" =>
       pass.list = pass.checked \o (IF run.pc = "idle" THEN pass.todo ELSE Tail(pass.todo))
  /\ pass.pc = "aborted" => pass.checked = pass.list
  /\ pass.errors = pass.failed

\* C12: a channel deleted from the store while it had a cache entry is not
\* checked in the first pass begun after the deletion, and once that pass
\* has completed the cache has no entry for it (stated for a monitor with a
\* listener of 'error', on which no pass is cut short).
C12_DeletedChannelEvicted ==
  \A c \in Channels :
    (errorListener /\ deleted[c] # 0) =>
      /\ (cycle = deleted[c] /\ pass.pc # "idle") =>
           \A i \in DOMAIN pass.checked : pass.checked[i] # c
      /\ (cycle > deleted[c] \/ (cycle = deleted[c] /\ pass.pc = "idle")) =>
           c \notin channelCache

\* the unbookmarked rows of a channel
Unbookmarked(store, c) ==
  {id \in DOMAIN store : store[id].channel_id = c /\ store[id].bookmarked = 0}

\* C13: cleanupOldVideos(N) deletes, in every channel holding U unbookmarked
\* rows, exactly max(0, U - N) rows, all unbookmarked and all older than every
\* unbookmarked row it keeps, wherever the bookmarked rows stand in the order
\* of published times.
C13_RetentionDeletesOldest ==
  fnPc = "returned" =>
    \A c \in Channels :
      LET pre  == fnArg.store
          U    == Unbookmarked(pre, c)
          gone == {id \in DOMAIN pre : pre[id].channel_id = c} \ DOMAIN videos
          n    == fnArg.maxPerChannel
      IN  /\ gone \subseteq U
          /\ Cardinality(gone) = IF Cardinality(U) > n THEN Cardinality(U) - n ELSE 0
          /\ \A d \in gone, k \in U \ gone : pre[d].published_at < pre[k].published_at

\* the six rules in their order: which of them the signals match, and their types
RuleMatches(props, feedHint) ==
  << props.isUpcoming /\ props.scheduledStartTime # <<>>,
     props.isLive,
     props.isLiveContent,
     props.duration # <<>> /\ props.duration[1] <= 90,
     feedHint = "shorts",
     TRUE >>

RuleTypes == <<"scheduled", "live", "vod", "short", "short", "video">>

FirstMatch(m) == CHOOSE i \in DOMAIN m : m[i] /\ \A j \in 1 .. i - 1 : ~m[j]

\* C14: for every tuple of signals and every feed hint, classifyVideo returns
\* the type of the first rule that matches, in the order scheduled, live, vod,
\* short by duration, short by hint, video.
C14_ClassifyFirstRule ==
  fnPc = "returned" =>
    fnRet = RuleTypes[FirstMatch(RuleMatches(fnArg.props, fnArg.feedHint))]

\* C14 case: every rule but the first matches (upcoming without a scheduled
\* start, live, live content, a duration under the threshold, the shorts hint)
C14_Witness ==
  /\ fnPc = "returned"
  /\ fnArg.props.isUpcoming
  /\ fnArg.props.scheduledStartTime = <<>>
  /\ fnArg.props.isLive
  /\ fnArg.props.isLiveContent
  /\ fnArg.props.duration = <<0>>
  /\ fnArg.feedHint = "shorts"
  /\ fnRet = "live"

\* C15: deduplicateVideos applied to its own result returns the same records,
\* and applied to the list followed by itself returns the same records as on
\* the list (so for every identifier the same record is kept).
C15_DedupIdempotent ==
  fnPc = "returned" =>
    /\ fnRet.again = fnRet.out
    /\ fnRet.doubled = fnRet.out

\* C15 case: a list of three records of two identifiers in which a kept
\* record was replaced
C15_Witness ==
  /\ fnPc = "returned"
  /\ Len(fnArg.list) = 3
  /\ Len(fnRet.out) = 2
  /\ fnRet.replaced # {}
  /\ fnRet.doubled = fnRet.out

\* the place of a record in the order (isLive, isLiveContent, isUpcoming,
\* type is vod/live/scheduled)
LexKey(v) ==
  8 * Bit(v.isLive) + 4 * Bit(v.isLiveContent) + 2 * Bit(v.isUpcoming)
    + Bit(v.type \in {"vod", "live", "scheduled"})

\* C16: every record that took the place of the kept record of its identifier
\* is strictly higher than it in the lexicographic order (isLive,
\* isLiveContent, isUpcoming, type is vod/live/scheduled); so a kept record
\* with isLive true is never replaced by one with isLive false.
C16_ReplacedOnlyByHigher ==
  fnPc = "returned" =>
    \A pair \in fnRet.replaced : LexKey(pair[2]) > LexKey(pair[1])

\* C17: when every feed was fetched, no item whose identifier occurs in the
\* shorts feed is upserted by checkChannel, whichever other feeds contain the
\* identifier and in whichever order the fetches complete.
C17_ShortsFeedNeverUpserted ==
  (fnPc = "returned" /\ fnRet.failed = {}) =>
    \A i \in DOMAIN fnArg.feeds["shorts"] : fnArg.feeds["shorts"][i] \notin fnRet.upserted

\* C18: at any time at most one checkChannel run is in progress, whether the
\* passes or addChannel called it.
C18_OneCheckAtATime ==
  checks.pass + checks.add <= 1

\* C19: the time between any two successive sends of one client, whether
\* they belong to concurrently admitted get calls or are retry sends of one
\* call, is at least minDelay.
C19_SendsSpaced ==
  sent.closest >= Ticks(options.minDelay)

C21_LastFailureSurfaced ==
  \A c \in Calls :
    calls[c].pc = "failed" => calls[c].error = calls[c].lastResp

\* C22: cleanupOldVideos deletes no bookmarked row, whatever its rank in its
\* channel and whatever maxVideosPerChannel is: every bookmarked row of the
\* store is still there, unchanged, when the call has returned.
C22_BookmarkedKept ==
  fnPc = "returned" =>
    \A id \in DOMAIN fnArg.store :
      fnArg.store[id].bookmarked = 1 =>
        /\ id \in DOMAIN videos
        /\ videos[id] = fnArg.store[id]

\* C22 case: a bookmarked row ranked beyond maxVideosPerChannel is kept
C22_Witness ==
  /\ fnPc = "returned"
  /\ \E id \in DOMAIN fnArg.store, tie \in TieOrders :
       /\ fnArg.store[id].bookmarked = 1
       /\ RowNumber(fnArg.store, id, tie) > fnArg.maxPerChannel
       /\ id \in DOMAIN videos

\* C23: in every checkChannel run the item of the live probe is upserted when
\* no feed item of the run is left to upsert, and cleanupEndedLives runs when
\* the loop over the feed items is over.
C23_LiveUpsertAfterFeed ==
  [][ /\ (run.pc = "live" /\ run.liveNow # <<>> /\ run'.pc # "live") =>
           \A i \in run.idx .. Len(run.videos) :
             ~Survives(run.videos[i], run.shortVideoIds)
      /\ (run.pc = "feed" /\ run'.pc = "idle" /\ pass'.failed = pass.failed) =>
           run.idx > Len(run.videos) ]_vars

\* C24: an item present in both the lives feed and the videos feed of the
\* channel has type vod in the result of getChannelVideos and is not upserted
\* as a plain video, in every order in which the feed fetches complete.
C24_LiveRecordingIsVod ==
  fnPc = "returned" =>
    \A i \in DOMAIN fnArg.feeds["lives"], j \in DOMAIN fnArg.feeds["videos"] :
      fnArg.feeds["lives"][i] = fnArg.feeds["videos"][j] =>
        /\ \E k \in DOMAIN fnRet.videos :
             /\ fnRet.videos[k].videoId = fnArg.feeds["lives"][i]
             /\ fnRet.videos[k].type = "vod"
        /\ fnArg.feeds["lives"][i] \notin fnRet.upserted

\* C25: the step of checkChannel that retires ended lives deletes a stored live
\* item only when the live-probe document was fetched and did not identify that
\* item; a check whose probe fetch failed leaves the stored live items in place.
C25_LivesKeptOnProbeFailure ==
  [][ (run.pc = "feed" /\ run'.pc = "idle") =>
        \A id \in getLiveVideos(videos, run.channelId) :
          id \notin DOMAIN videos' =>
            /\ fnArg.fetched
            /\ run.liveNow = <<>> \/ run.liveNow[1].videoId # id ]_vars


\* history: the live status of each item after the events emitted so far
LiveStatus == NoteEvents(fnRet, emitted)

\* C26: when live_started was emitted for an item and a later check of the
\* channel, whose probe fetched the document, is over without the probe having
\* reported the item, exactly one live_ended for the item eventually follows.
C26_LiveEndedFollows ==
  \A v \in VideoIds :
    ( /\ LiveStatus[v] = "started"
      /\ run.pc = "idle" /\ pass.pc = "idle"
      /\ fnArg.fetched
      /\ ~fnArg.doc.isLive ) ~> (LiveStatus[v] = "ended")

\* C27: when a check is over, every feed item of it that was not stored before
\* and whose signals are upcoming is stored and has yielded exactly one
\* scheduled_live event in the check.
C27_UpcomingYieldsScheduledLive ==
  (run.pc = "idle" /\ run.channelId # "" /\ pass.failed = <<>>) =>
    \A v \in fnArg.upcoming \ fnArg.stored :
      /\ v \in DOMAIN videos
      /\ Cardinality({i \in DOMAIN emitted :
                        emitted[i] = [event |-> "scheduled_live", videoId |-> v]}) = 1


\* C28: when a run of checkChannel failed on the store after the record of an
\* item was upserted and before its event was recorded and emitted, and a later
\* run that observes the item is over, the event of that transition has been
\* emitted.
C28_TransitionNotLost ==
  \A w \in Writers, later \in Writers :
    ( /\ upPc[w] = "failed"
      /\ upPc[later] = "done"
      /\ w \in upPre[later].failed ) =>
        \E i \in DOMAIN emitted :
          emitted[i] = [event |-> upRet[w], videoId |-> upArg.video.videoId]

\* C29: when two runs of checkChannel on a channel have both upserted the same
\* item, a plain one that was not stored before them, exactly one new_video
\* event is recorded and emitted for it.
C29_OneNewVideoForOverlap ==
  ( /\ \A w \in Writers : upPc[w] = "done"
    /\ ~upArg.stored
    /\ ~upArg.video.isLive /\ ~upArg.video.isUpcoming ) =>
      /\ Cardinality({i \in DOMAIN emitted :
                        emitted[i] = [event |-> "new_video",
                                      videoId |-> upArg.video.videoId]}) = 1
      /\ LET Recorded(r) == r.event_type = "new_video" /\ r.video_id = upArg.video.videoId
         IN  BagCardinality(BagKeep(events, Recorded)) = 1


\* the document pairs item v with channel c: their fields are adjacent, in
\* either order
Paired(tokens, v, c) ==
  \E i \in 1 .. Len(tokens) - 1 :
    \/ /\ tokens[i].k = "videoId" /\ tokens[i].video = v
       /\ tokens[i + 1].k = "channelId" /\ tokens[i + 1].channel = c
    \/ /\ tokens[i].k = "channelId" /\ tokens[i].channel = c
       /\ tokens[i + 1].k = "videoId" /\ tokens[i + 1].video = v

\* C30: checkLiveStatus(c) returns an item only if the document carries the
\* live-now signal, never the identifier of an item that the document pairs with
\* a channel other than c, and no item when the document pairs no item with c.
C30_ProbeReturnsOwnItem ==
  (fnPc = "returned" /\ fnArg.fetched) =>
    /\ fnRet # <<>> => fnArg.doc.isLive
    /\ fnRet # <<>> =>
         \A c \in Channels \ {fnArg.channelId} :
           ~Paired(fnArg.doc.tokens, fnRet[1].videoId, c)
    /\ (\A v \in VideoIds : ~Paired(fnArg.doc.tokens, v, fnArg.channelId)) => fnRet = <<>>
\* C31: with the refinement on, a stub whose classification fetch fails, or
\* succeeds and yields none of the signals, has the type of its feed: short for
\* the shorts feed, vod for the lives feed, video for the videos feed.
C31_NoSignalFallsBackToFeedType ==
  ( /\ fnPc = "returned"
    /\ ~fnArg.fetched \/ fnArg.props = NoProps ) =>
      fnRet.type = getTypeFromFeed(fnArg.feedType)
\* C32: a failed fetch of the shorts feed or of the lives feed leaves an empty
\* list for that feed, and the result the fetches end in holds every item,
\* within the cut to maxVideosPerFeed, of the feeds that were fetched.
C32_FailedFeedIsEmpty ==
  /\ \A i \in DOMAIN fnRet.results :
       fnRet.results[i][1] \in fnRet.failed => fnRet.results[i][2] = <<>>
  /\ fnPc = "returned" =>
       \A g \in Feeds \ fnRet.failed :
         \A j \in DOMAIN slice(fnArg.feeds[g], fnArg.maxVideosPerFeed) :
           \E k \in DOMAIN fnRet.videos : fnRet.videos[k].videoId = fnArg.feeds[g][j]

\* C32 case: the lives or the shorts fetch failed on a feed that has entries, and
\* the result holds an item of a feed that was fetched
C32_Witness ==
  /\ fnPc = "returned"
  /\ \E f \in fnRet.failed \cap {"shorts", "lives"} : fnArg.feeds[f] # <<>>
  /\ \E g \in Feeds \ fnRet.failed : fnArg.feeds[g] # <<>>
  /\ fnRet.videos # <<>>

\* C33: in every pass the cleanup runs when no channel of the pass is left to
\* check, cycle_complete is emitted only after the cleanup of the pass, and a
\* pass that is over has emitted it exactly once, with the number of channels
\* listed at its start; a pass that is not over, or whose cleanup failed, has
\* emitted none.
C33_CycleCompleteAfterCleanup ==
  [][ /\ pass'.pc = "cleaned" /\ pass.pc # "cleaned" =>
           pass.pc = "checking" /\ pass.todo = <<>> /\ run.pc = "idle"
      /\ fnRet' # fnRet => pass.pc = "cleaned" /\ pass'.pc = "idle"
      /\ LET Of(k) == {i \in DOMAIN fnRet' : fnRet'[i].cycle = k}
         IN  /\ \A k \in 1 .. cycle' : Cardinality(Of(k)) <= 1
             /\ (cycle' > 0 /\ pass'.pc = "idle") =>
                  \E i \in Of(cycle') : fnRet'[i].channels = Len(pass'.list)
             /\ pass'.pc # "idle" => Of(cycle') = {} ]_vars

\* C33 case: a pass over one channel is over after its cleanup and has emitted
\* its cycle_complete, and the pass before it was aborted and emitted none
C33_Witness ==
  /\ cycle = 2
  /\ pass.pc = "idle"
  /\ Len(pass.list) = 1
  /\ fnRet = <<[cycle |-> 2, channels |-> 1]>>
\* C34: cleanupEndedLives for channel c with probe result p deletes exactly the
\* stored rows of c with is_live = 1 whose identifier is not the one of p (all
\* of them when the probe found nothing), and every other row is left as it was
C34_RetiresExactlyEndedLives ==
  fnPc = "returned" =>
    LET pre == fnArg.store
        c   == fnArg.channelId
        p   == fnArg.currentLive
    IN  /\ DOMAIN videos \subseteq DOMAIN pre
        /\ DOMAIN pre \ DOMAIN videos =
             {id \in DOMAIN pre : /\ pre[id].channel_id = c
                                  /\ pre[id].is_live = 1
                                  /\ (p = <<>> \/ id # p[1].videoId)}
        /\ \A id \in DOMAIN videos : videos[id] = pre[id]

\* C34 case: the call deleted an ended live of the channel and kept the live
\* the probe found
C34_Witness ==
  /\ fnPc = "returned"
  /\ fnRet # {}
  /\ fnArg.currentLive # <<>>
  /\ LET p == fnArg.currentLive[1].videoId
     IN  /\ p \in DOMAIN videos
         /\ videos[p].is_live = 1
         /\ videos[p].channel_id = fnArg.channelId
\* C35: the calls resumed from the queue of the semaphore are resumed in the
\* order in which they were queued (the calls queued so far are the resumed
\* ones, in the order of their admission, followed by the ones still queued),
\* and a call that arrives is admitted at once only when no call is queued
C35_WaitersAdmittedInOrder ==
  LET IsResumed(a) == a.resumed
      resumed == SelectSeq(fnRet, IsResumed)
  IN  /\ fnArg = [i \in 1 .. Len(resumed) |-> resumed[i].call] \o queue
      /\ \A i \in DOMAIN fnRet : ~fnRet[i].resumed => fnRet[i].queued = 0
      /\ queue # <<>> => permits = 0

\* C35 case: two calls were queued behind a third and both were resumed by
\* releases, the first of them while the other was still queued
C35_Witness ==
  /\ Len(fnArg) = 2
  /\ queue = <<>>
  /\ Len(fnRet) = 3
  /\ fnRet[2].resumed /\ fnRet[2].queued = 2
  /\ fnRet[3].resumed
\* C36: once removeChannel(c) has returned and the pass that was in flight when
\* it returned is over, channelCache has no entry for c and no lifecycle event
\* is emitted for c (as long as addChannel(c) is not called again)
C36_RemovedChannelForgotten ==
  [][ LET Settled(c) == /\ fnRet[c].removed
                        /\ \/ fnRet[c].during = 0
                           \/ cycle > fnRet[c].during
                           \/ pass.pc # "checking"
      IN  \A c \in Channels :
            /\ Settled(c)' => c \notin channelCache'
            /\ (Settled(c) /\ fnRet'[c].removed) =>
                 ~(emitted' # emitted /\ emitted' # <<>> /\ run'.channelId = c) ]_vars

\* C37: a channel for which addChannel returned a channel, and that was not
\* removed since, is in the list of getActiveChannels
C37_AddedChannelIsActive ==
  \A c \in Channels :
    fnArg[c] = "info" => (c \in DOMAIN channels /\ channels[c].is_active = 1)
C39_GetTerminates ==
  /\ [](\A c \in Calls : calls[c].sends <= options.maxRetries)
  /\ \A c \in {1, 2, 3} : (calls[c].pc # "idle") ~> (calls[c].pc \in {"done", "failed"})

\* C39 case: a call whose every send was answered 429 has thrown after
\* maxRetries sends, while the other call, which waited for its permit, has
\* returned
C39_Witness ==
  /\ options.maxRetries = MaxRetries
  /\ options.maxConcurrent = 1
  /\ \E c \in {1, 2} :
       /\ calls[c].pc = "failed"
       /\ calls[c].sends = MaxRetries
       /\ calls[c].lastError = "none"
       /\ calls[c].lastResp = "429"
       /\ calls[3 - c].pc = "done"
\* C40: the permits of the semaphore plus the get calls that hold one (admitted
\* and not yet at release) are maxConcurrent in every state; no call is queued
\* while a permit is free; and when no call is in progress all maxConcurrent
\* permits are back
C40_PermitsConserved ==
  /\ permits >= 0
  /\ permits + Cardinality({c \in Calls : Admitted(c)}) = options.maxConcurrent
  /\ {queue[i] : i \in DOMAIN queue} = {c \in Calls : calls[c].pc = "waiting"}
  /\ queue # <<>> => permits = 0
  /\ (\A c \in Calls : calls[c].pc \in {"idle", "done", "failed"}) =>
       permits = options.maxConcurrent

\* C40 case: one call has returned, one has thrown on a 404 or 403 and one has
\* thrown after its retries were exhausted, through a gate of one permit, and
\* the permit is back
C40_Witness ==
  /\ options.maxConcurrent = 1
  /\ options.maxRetries = MaxRetries
  /\ permits = 1
  /\ \E c \in Calls : calls[c].pc = "done"
  /\ \E c \in Calls : calls[c].pc = "failed" /\ NonRetryable(calls[c].error)
  /\ \E c \in Calls : /\ calls[c].pc = "failed"
                      /\ calls[c].sends = MaxRetries
                      /\ ~NonRetryable(calls[c].error)

====
